---------------------------- MODULE Spec2Model ----------------------------
(***************************************************************************)
(* Model of service_client/ARCA_client.py: the credential cache (memory    *)
(* and disk), the facade's credential acquisition (_get_token) and invoice *)
(* issuance (issue_invoice) against the remote WSAA / WSFE services.       *)
(*                                                                         *)
(* Time is counted in minutes.  A timestamp string is represented by the   *)
(* instant it denotes; strings that do not parse, a JSON null and a        *)
(* missing key are kept apart because the code fails differently on them.  *)
(***************************************************************************)
EXTENDS Integers, Sequences, FiniteSets, TLC

\* timedelta(minutes=5) in _load_token_from_disk and ARCAClient._is_valid
Margin == 5

\* Largest clock value explored.
MaxNow == 1

\* The invoice numbers a point of sale gets to.
MaxSeq == 1

\* The invoices other issuers get authorized at the first point of sale.
MaxLast == 2

\* The last tick of the clock of _build_tra, and the most documents built.
MaxTs == 7
MaxTras == 3

VARIABLES
    now,        \* datetime.now(timezone.utc), in minutes
    disk,       \* content of every file of _TOKEN_CACHE_DIR, by path
    cacheDir,   \* whether the directory _TOKEN_CACHE_DIR exists
    storage,    \* condition of the file system: "ok", "readonly", "nodir"
    res,        \* the last direct call of a cache function and its outcome
    self_cuit,  \* ARCAClient.cuit, from the settings every facade is built from
    self_homo,  \* ARCAClient.homo
    mem,        \* ARCAClient._mem_cache of each caller's facade
    pc,         \* where each caller stands in its facade operation
    site,       \* which call of _get_token the caller is in
    tdisk,      \* the local "disk" of _get_token
    token_data, \* the local "token_data" of _get_token
    outcome,    \* what the finished facade operation returned or raised
    log,        \* the file and remote calls of the operation, in order
    cred,       \* the local "t": the credential _get_token returned
    pv,         \* the local "pv" of issue_invoice
    last_number,\* the local "last_number" of issue_invoice
    row,        \* the argument "row" of issue_invoice
    remoteLast, \* WSFE: the last authorized number of each point of sale
    approved,   \* WSFE: the numbers it authorized, in order, by point of sale
    gi,         \* the locals of get_invoices
    rg,         \* the locals of wsfe_query_invoices_range
    fh,         \* the file handle of write_text in _save_token_to_disk
    lastWrite,  \* the dict of the last write_text that was carried out
    direct,     \* a direct call of wsaa_get_token or wsfe_request_cae
    ts,         \* the clock of _build_tra, in ticks
    tras        \* the documents _build_tra built, in order

cacheVars == <<now, disk, cacheDir, storage, res>>
facadeVars ==
    <<self_cuit, self_homo, mem, pc, site, tdisk, token_data, outcome, log, cred>>
issueVars == <<row, pv, last_number, remoteLast, approved>>
histVars == <<gi, rg>>
raceVars == <<fh, lastWrite>>
wsaaVars == <<direct, ts, tras>>
vars == <<cacheVars, facadeVars, issueVars, histVars, raceVars, wsaaVars>>

\* The callers: each request of the controllers builds its own ARCAClient.
Procs == {"p1", "p2"}

-----------------------------------------------------------------------------
(* Values *)

\* Optional[x]: None is the empty sequence, a value is a one-element sequence.
None == << >>
Some(x) == <<x>>
IsNone(o) == o = << >>

\* Expiration instants: from inside the margin at clock value 0 to outside it
\* at the largest clock value.
ExpTimes == (Margin - 1) .. (MaxNow + Margin + 1)

\* The "expiration" entry of a token dict: an ISO timestamp (k = "iso", the
\* instant in t), a string that is no timestamp ("bad"), None ("null"), or no
\* such key in the dict ("missing").
IsoExp(t) == [k |-> "iso", t |-> t]
BadExp == [k |-> "bad", t |-> 0]
NullExp == [k |-> "null", t |-> 0]
MissingExp == [k |-> "missing", t |-> 0]
Expirations == {IsoExp(t) : t \in ExpTimes} \cup {BadExp, NullExp, MissingExp}

\* Tokens and signatures are opaque strings; two of each are told apart.
Tokens == {"tokA", "tokB"}
SignOf(tok) == IF tok = "tokA" THEN "sigA" ELSE "sigB"

\* A token dict {"token", "sign", "expiration"}.
TokenData(tok, e) == [token |-> tok, sign |-> SignOf(tok), expiration |-> e]
TokenDicts == {TokenData(tok, e) : tok \in {"tokA"}, e \in Expirations}

\* Taxpayer ids as the characters of the string.
RawCuits == { <<"2", "0">>, <<"2", "-", "0">>, <<"2", "7">> }

\* _clean_cuit: cuit.replace("-", "").strip()
CleanCuit(cuit) == SelectSeq(cuit, LAMBDA ch : ch # "-" /\ ch # " ")

Cuits == {CleanCuit(c) : c \in RawCuits}

-----------------------------------------------------------------------------
(* Files *)

\* The text of a file: the JSON of a dict, or text that is no JSON.
Garbage == [json |-> FALSE, data |-> TokenData("tokA", MissingExp)]

\* A variant of JsonDumps that writes the expiration as null.
JsonDumpsNoExp(d) ==
    [json |-> TRUE, data |-> [d EXCEPT !.expiration = NullExp]]

\* json.dumps(token_data, ensure_ascii=False, indent=2)
JsonDumps(d) == [json |-> TRUE, data |-> d]

\* json.loads(text): ok = FALSE stands for json.JSONDecodeError
JsonLoads(text) == [ok |-> text.json, val |-> text.data]

FileTexts == {Garbage} \cup {JsonDumps(d) : d \in TokenDicts}
Files == {None} \cup {Some(x) : x \in FileTexts}

\* datetime.fromisoformat(data["expiration"]), then tzinfo defaulted to UTC:
\* ok = FALSE stands for KeyError, TypeError or ValueError.
ParseExpiration(d) ==
    IF d.expiration.k = "iso"
    THEN [ok |-> TRUE, exp |-> d.expiration.t]
    ELSE [ok |-> FALSE, exp |-> 0]

\* A variant of BeforeMargin that accepts the boundary instant.
BeforeMarginLe(t, exp) == t <= exp - Margin

\* The comparison of _load_token_from_disk line 147 and _is_valid line 490:
\* datetime.now(timezone.utc) < exp - timedelta(minutes=5)
BeforeMargin(t, exp) == t < exp - Margin

\* ARCAClient._is_valid(token_data) at clock value t
IsValid(d, t) ==
    LET p == ParseExpiration(d)
    IN  IF p.ok THEN BeforeMargin(t, p.exp) ELSE FALSE

\* f"token_{cuit}_{env}.json" inside _TOKEN_CACHE_DIR
PathName(cuit, homo) ==
    <<"token_">> \o cuit \o <<"_">> \o <<IF homo THEN "homo" ELSE "prod">>
        \o <<".json">>

\* _TOKEN_CACHE_DIR.mkdir(parents=True, exist_ok=True): ok = FALSE stands for
\* OSError.  An existing directory is accepted; a missing one is created when
\* the file system allows it.
Mkdir(st, dir) ==
    IF st = "nodir" THEN [ok |-> FALSE, dir |-> dir]
    ELSE IF dir THEN [ok |-> TRUE, dir |-> TRUE]
    ELSE IF st = "ok" THEN [ok |-> TRUE, dir |-> TRUE]
    ELSE [ok |-> FALSE, dir |-> FALSE]

\* _token_cache_path(cuit, homo): the directory is created, the path returned.
TokenCachePath(cuit, homo, st, dir) ==
    LET m == Mkdir(st, dir)
    IN  [ok |-> m.ok, dir |-> m.dir, path |-> PathName(cuit, homo)]

Paths == {PathName(c, h) : c \in Cuits, h \in BOOLEAN}

\* One behaviour follows two files of the directory; which two is free.
PathPairs == {S \in SUBSET Paths : \E p, q \in S : p # q /\ S = {p, q}}

\* The keys whose file the behaviour follows.
InPlay(cuit, homo) == PathName(cuit, homo) \in DOMAIN disk

\* A variant of Unlink as path.unlink() without missing_ok: FileNotFoundError
\* on a missing file.
UnlinkStrict(d, path, st) ==
    IF IsNone(d[path]) THEN [ok |-> FALSE, disk |-> d]
    ELSE IF st = "ok" THEN [ok |-> TRUE, disk |-> [d EXCEPT ![path] = None]]
    ELSE [ok |-> FALSE, disk |-> d]

\* A variant of Unlink that removes every file of the directory.
UnlinkAll(d, path, st) ==
    IF IsNone(d[path]) THEN [ok |-> TRUE, disk |-> d]
    ELSE IF st = "ok" THEN [ok |-> TRUE, disk |-> [f \in DOMAIN d |-> None]]
    ELSE [ok |-> FALSE, disk |-> d]

\* path.unlink(missing_ok=True): ok = FALSE stands for OSError (PermissionError)
Unlink(d, path, st) ==
    IF IsNone(d[path]) THEN [ok |-> TRUE, disk |-> d]
    ELSE IF st = "ok" THEN [ok |-> TRUE, disk |-> [d EXCEPT ![path] = None]]
    ELSE [ok |-> FALSE, disk |-> d]

\* path.write_text(text): ok = FALSE stands for OSError
WriteText(d, path, text, st) ==
    IF st = "ok" THEN [ok |-> TRUE, disk |-> [d EXCEPT ![path] = Some(text)]]
    ELSE [ok |-> FALSE, disk |-> d]

-----------------------------------------------------------------------------
(* Disk-based token cache *)

\* A variant of LoadTokenFromDisk that leaves a stale or corrupt file in place.
LoadTokenFromDiskKeep(cuit, homo, d, dir, st, t) ==
    LET pth == TokenCachePath(cuit, homo, st, dir)
    IN  IF ~pth.ok
        THEN [raised |-> TRUE, val |-> None, disk |-> d, dir |-> pth.dir]
        ELSE IF IsNone(d[pth.path])
        THEN [raised |-> FALSE, val |-> None, disk |-> d, dir |-> pth.dir]
        ELSE LET js == JsonLoads(d[pth.path][1])
                 pe == ParseExpiration(js.val)
             IN  IF js.ok /\ pe.ok /\ BeforeMargin(t, pe.exp)
                 THEN [raised |-> FALSE, val |-> Some(js.val), disk |-> d,
                       dir |-> pth.dir]
                 ELSE [raised |-> FALSE, val |-> None, disk |-> d,
                       dir |-> pth.dir]

\* _load_token_from_disk(cuit, homo) on disk d at clock value t.  raised stands
\* for an exception leaving the function, val for the returned dict or None.
LoadTokenFromDisk(cuit, homo, d, dir, st, t) ==
    LET pth == TokenCachePath(cuit, homo, st, dir)
    IN  IF ~pth.ok
        THEN [raised |-> TRUE, val |-> None, disk |-> d, dir |-> pth.dir]
        ELSE IF IsNone(d[pth.path])
        THEN [raised |-> FALSE, val |-> None, disk |-> d, dir |-> pth.dir]
        ELSE LET js == JsonLoads(d[pth.path][1])
                 pe == ParseExpiration(js.val)
                 u  == Unlink(d, pth.path, st)
             IN  IF js.ok /\ pe.ok /\ BeforeMargin(t, pe.exp)
                 THEN [raised |-> FALSE, val |-> Some(js.val), disk |-> d,
                       dir |-> pth.dir]
                 ELSE [raised |-> ~u.ok, val |-> None, disk |-> u.disk,
                       dir |-> pth.dir]

\* _save_token_to_disk(cuit, homo, token_data): the path is computed outside
\* the try block, the write inside it.
SaveTokenToDisk(cuit, homo, data, d, dir, st) ==
    LET pth == TokenCachePath(cuit, homo, st, dir)
        w   == WriteText(d, pth.path, JsonDumps(data), st)
    IN  IF ~pth.ok
        THEN [raised |-> TRUE, disk |-> d, dir |-> pth.dir]
        ELSE [raised |-> FALSE, disk |-> w.disk, dir |-> pth.dir]

\* _delete_token_from_disk(cuit, homo)
DeleteTokenFromDisk(cuit, homo, d, dir, st) ==
    LET pth == TokenCachePath(cuit, homo, st, dir)
        u   == Unlink(d, pth.path, st)
    IN  IF ~pth.ok
        THEN [raised |-> TRUE, disk |-> d, dir |-> pth.dir]
        ELSE [raised |-> ~u.ok, disk |-> u.disk, dir |-> pth.dir]

-----------------------------------------------------------------------------
(* Direct calls of the cache functions, one per step *)

NoCall ==
    [op |-> "none", cuit |-> << >>, homo |-> TRUE, arg |-> None, out |-> None,
     valid |-> FALSE, raised |-> FALSE, at |-> 0, pre |-> None,
     saved |-> None, again |-> FALSE]

\* The record of a call: its operation, key and argument, what it returned
\* (out, valid) or that it raised, the clock value, the file's content before
\* the call (pre), the dict the call directly before it saved under the same
\* key (saved) and whether that call was the same operation on the same key.
Call(op, cuit, homo, arg, out, valid, raised, pre) ==
    LET same == res.op # "none" /\ res.cuit = cuit /\ res.homo = homo
    IN  [op |-> op, cuit |-> cuit, homo |-> homo, arg |-> arg, out |-> out,
         valid |-> valid, raised |-> raised, at |-> now, pre |-> pre,
         saved |-> IF same /\ res.op = "save" /\ ~res.raised /\ op = "load"
                   THEN res.arg ELSE None,
         again |-> same /\ res.op = op]

Tick ==
    /\ now < MaxNow
    /\ now' = now + 1
    /\ UNCHANGED <<disk, cacheDir, storage, res>>

CallIsValid(d) ==
    /\ res' = Call("is_valid", << >>, TRUE, Some(d), None, IsValid(d, now),
                   FALSE, None)
    /\ UNCHANGED <<now, disk, cacheDir, storage>>

CallLoad(cuit, homo) ==
    /\ InPlay(cuit, homo)
    /\ LET r == LoadTokenFromDisk(cuit, homo, disk, cacheDir, storage, now)
       IN  /\ disk' = r.disk
           /\ cacheDir' = r.dir
           /\ res' = Call("load", cuit, homo, None, r.val, FALSE, r.raised,
                          disk[PathName(cuit, homo)])
           /\ UNCHANGED <<now, storage>>

CallSave(cuit, homo, d) ==
    /\ InPlay(cuit, homo)
    /\ LET r == SaveTokenToDisk(cuit, homo, d, disk, cacheDir, storage)
       IN  /\ disk' = r.disk
           /\ cacheDir' = r.dir
           /\ res' = Call("save", cuit, homo, Some(d), None, FALSE, r.raised,
                          disk[PathName(cuit, homo)])
           /\ UNCHANGED <<now, storage>>

CallDelete(cuit, homo) ==
    /\ InPlay(cuit, homo)
    /\ LET r == DeleteTokenFromDisk(cuit, homo, disk, cacheDir, storage)
       IN  /\ disk' = r.disk
           /\ cacheDir' = r.dir
           /\ res' = Call("delete", cuit, homo, None, None, FALSE, r.raised,
                          disk[PathName(cuit, homo)])
           /\ UNCHANGED <<now, storage>>

-----------------------------------------------------------------------------
(* ARCAClient: the facade *)

\* An outcome: a returned credential (val), invoice result (inv), number or
\* list of records (out), or the error raised (err) with the lines of its
\* message where the model follows them (msg), and the clock value.
NoOutcome ==
    [kind |-> "none", val |-> None, inv |-> None, out |-> None, err |-> "",
     msg |-> << >>, at |-> 0]
Returned(val) == [NoOutcome EXCEPT !.kind = "ret", !.val = val, !.at = now]
ReturnedInvoice(inv) ==
    [NoOutcome EXCEPT !.kind = "ret", !.inv = Some(inv), !.at = now]
ReturnedValue(x) ==
    [NoOutcome EXCEPT !.kind = "ret", !.out = Some(x), !.at = now]
Raised(err) == [NoOutcome EXCEPT !.kind = "raise", !.err = err, !.at = now]
RaisedWith(err, msg) == [Raised(err) EXCEPT !.msg = msg]

\* No direct call of a module-level function has been made.
NoDirect == [fn |-> "none", resp |-> None, out |-> None]

\* The locals of get_invoices and of wsfe_query_invoices_range while no call
\* is running.  fetched is no local: it keeps every record the range calls
\* of the get_invoices call returned.
NoInvoicesFrame ==
    [date_from |-> 0, date_to |-> 0, pvs |-> << >>, i |-> 0,
     all_invoices |-> << >>, fetched |-> << >>]
NoRangeFrame ==
    [punto_venta |-> 0, from_number |-> 0, to_number |-> 0, n |-> 0,
     invoices |-> << >>]

\* One entry of the log: a file or remote call the operation made and how it
\* ended ("ok", or the error it raised).
Event(call, r) ==
    [call |-> call, r |-> r, pv |-> 0, n |-> 0, items |-> << >>,
     cred |-> None]

\* An entry for a call of the invoicing service: the point of sale and the
\* number sent (a submission) or received (a last-number query).
WsfeEvent(call, r, ptovta, n) ==
    [Event(call, r) EXCEPT !.pv = ptovta, !.n = n]

\* An entry with the credential the call was made with.
WithCred(ev, t) == [ev EXCEPT !.cred = t]

\* An entry for a submission: with the Err and Obs elements of the response.
SubmitEvent(r, ptovta, n, items) ==
    [WsfeEvent("submit", r, ptovta, n) EXCEPT !.items = items]

\* The points of sale: [1, 2] is the default of get_invoices, 2 the one of
\* issue_invoice.
PVs == {1, 2}

\* The rows issue_invoice is called with.  comp_nro is a text, here its
\* characters; fecha_emision is "d/m/y" ("dmy"), a text with another number
\* of "/" ("bad") or one without "/" ("none"); amount is a number (TRUE) or
\* a text float() does not take.
CompNros == {<<"C", "1", "-">>, <<"2", "-">>}
Rows ==
    {[comp_nro |-> c, fecha |-> "dmy", amount |-> TRUE] : c \in CompNros}
      \cup {[comp_nro |-> <<"C", "1", "-">>, fecha |-> "bad", amount |-> TRUE],
            [comp_nro |-> <<"c", "0", "2", "-">>, fecha |-> "none",
             amount |-> FALSE]}
NoRow == [comp_nro |-> << >>, fecha |-> "none", amount |-> TRUE]

\* ARCAClient.__init__: _mem_cache is None; no operation is running.
FacadeIdle ==
    /\ mem = [p \in Procs |-> None]
    /\ pc = [p \in Procs |-> "idle"]
    /\ site = [p \in Procs |-> ""]
    /\ tdisk = [p \in Procs |-> None]
    /\ token_data = [p \in Procs |-> None]
    /\ outcome = [p \in Procs |-> NoOutcome]
    /\ log = [p \in Procs |-> << >>]
    /\ cred = [p \in Procs |-> None]
    /\ row = [p \in Procs |-> NoRow]
    /\ pv = [p \in Procs |-> 0]
    /\ last_number = [p \in Procs |-> 0]
    /\ remoteLast = [v \in PVs |-> 0]
    /\ approved = [v \in PVs |-> << >>]
    /\ gi = [p \in Procs |-> NoInvoicesFrame]
    /\ rg = [p \in Procs |-> NoRangeFrame]
    /\ fh = [p \in Procs |-> "closed"]
    /\ lastWrite = None
    /\ direct = NoDirect
    /\ ts = 0
    /\ tras = << >>

\* What wsaa_get_token can come back with: a dict whose expiration is the text
\* of the response's expirationTime, or None when the response has none
\* (only token and sign are required, line 244); a RuntimeError naming an
\* active ticket ("TA valido"); another RuntimeError (SOAP fault, token/sign
\* not found, openssl failure); an exception that is no RuntimeError
\* (ConnectionError, timeout, ParseError).
WsaaDicts ==
    {TokenData(tok, e) : tok \in Tokens,
                         e \in {IsoExp(t) : t \in ExpTimes} \cup {NullExp}}
WsaaErrors == {"ta_valido", "wsaa_fault", "transport"}

\* The message of the RuntimeError raised at lines 508-513.
ActiveTokenError == "active_token_not_in_cache"

\* A call of _get_token starts: by itself (site "direct") or inside a facade
\* operation.
EnterGetToken(p, s) ==
    /\ site' = [site EXCEPT ![p] = s]
    /\ pc' = [pc EXCEPT ![p] = "gt_mem"]

\* _get_token has its value: a direct call is over; get_last_invoice_number
\* (line 522), issue_invoice (line 595) and get_invoices (line 549) go on
\* with it as t.
LeaveGetToken(p, val) ==
    IF site[p] = "direct"
    THEN /\ pc' = [pc EXCEPT ![p] = "done"]
         /\ outcome' = [outcome EXCEPT ![p] = Returned(Some(val))]
         /\ UNCHANGED cred
    ELSE /\ pc' = [pc EXCEPT ![p] =
                     CASE site[p] \in {"last", "getlast"} -> "gl_query"
                       [] site[p] = "invoices" -> "gi_last"
                       [] OTHER -> "iss_submit"]
         /\ cred' = [cred EXCEPT ![p] = Some(val)]
         /\ UNCHANGED outcome

\* An exception leaves the facade operation.
Raise(p, err) ==
    /\ pc' = [pc EXCEPT ![p] = "done"]
    /\ outcome' = [outcome EXCEPT ![p] = Raised(err)]

\* The handles open for writing after the directory changed from disk to d2:
\* a handle whose file was unlinked no longer writes to the cache entry.
HandlesAfter(d2) ==
    LET path == PathName(self_cuit, self_homo)
    IN  [q \in Procs |->
           IF fh[q] = "open" /\ ~IsNone(disk[path]) /\ IsNone(d2[path])
           THEN "detached" ELSE fh[q]]

\* A caller calls client._get_token().
StartGetToken(p) ==
    /\ pc[p] = "idle"
    /\ EnterGetToken(p, "direct")
    /\ UNCHANGED <<cacheVars, issueVars, self_cuit, self_homo, histVars, wsaaVars,
                   raceVars, mem, tdisk,
                   token_data, outcome, log, cred>>

\* Lines 495-496: the credential in memory, when valid, is returned.
GT_CheckMem(p) ==
    /\ pc[p] = "gt_mem"
    /\ IF ~IsNone(mem[p]) /\ IsValid(mem[p][1], now)
       THEN LeaveGetToken(p, mem[p][1])
       ELSE /\ pc' = [pc EXCEPT ![p] = "gt_load"]
            /\ UNCHANGED <<outcome, cred>>
    /\ UNCHANGED <<cacheVars, issueVars, self_cuit, self_homo, histVars, wsaaVars,
                   raceVars, mem, site, tdisk,
                   token_data, log>>

\* Line 497: disk = _load_token_from_disk(self.self_cuit, self.self_homo)
GT_Load(p) ==
    /\ pc[p] = "gt_load"
    /\ LET r == LoadTokenFromDisk(self_cuit, self_homo, disk, cacheDir, storage, now)
       IN  /\ disk' = r.disk
           /\ cacheDir' = r.dir
           /\ log' = [log EXCEPT ![p] =
                        Append(@, Event("load", IF r.raised THEN "os_error"
                                                ELSE "ok"))]
           /\ IF r.raised
              THEN /\ Raise(p, "os_error")
                   /\ UNCHANGED tdisk
              ELSE /\ tdisk' = [tdisk EXCEPT ![p] = r.val]
                   /\ pc' = [pc EXCEPT ![p] = "gt_chk"]
                   /\ UNCHANGED outcome
    /\ fh' = HandlesAfter(disk')
    /\ UNCHANGED <<now, storage, res, issueVars, self_cuit, self_homo,
                   histVars, wsaaVars, lastWrite, mem, site, token_data, cred>>

\* A variant of GT_CheckDisk that returns the dict from disk unchecked.
GT_CheckDiskAny(p) ==
    /\ pc[p] = "gt_chk"
    /\ IF ~IsNone(tdisk[p])
       THEN /\ mem' = [mem EXCEPT ![p] = tdisk[p]]
            /\ LeaveGetToken(p, tdisk[p][1])
       ELSE /\ pc' = [pc EXCEPT ![p] = "gt_auth"]
            /\ UNCHANGED <<mem, outcome, cred>>
    /\ UNCHANGED <<cacheVars, issueVars, self_cuit, self_homo, histVars, wsaaVars,
                   raceVars, site, tdisk,
                   token_data, log>>

\* Lines 498-500: the credential from disk, when valid, is kept and returned.
GT_CheckDisk(p) ==
    /\ pc[p] = "gt_chk"
    /\ IF ~IsNone(tdisk[p]) /\ IsValid(tdisk[p][1], now)
       THEN /\ mem' = [mem EXCEPT ![p] = tdisk[p]]
            /\ LeaveGetToken(p, tdisk[p][1])
       ELSE /\ pc' = [pc EXCEPT ![p] = "gt_auth"]
            /\ UNCHANGED <<mem, outcome, cred>>
    /\ UNCHANGED <<cacheVars, issueVars, self_cuit, self_homo, histVars, wsaaVars,
                   raceVars, site, tdisk,
                   token_data, log>>

\* Line 503, wsaa_get_token returns a dict.
GT_AuthOk(p, d) ==
    /\ pc[p] = "gt_auth"
    /\ token_data' = [token_data EXCEPT ![p] = Some(d)]
    /\ log' = [log EXCEPT ![p] = Append(@, Event("auth", "ok"))]
    /\ pc' = [pc EXCEPT ![p] = "gt_save"]
    /\ UNCHANGED <<cacheVars, issueVars, self_cuit, self_homo, histVars, wsaaVars,
                   raceVars, mem, site, tdisk,
                   outcome, cred>>

\* A variant of ActiveHandler that leaves the disk entry in place.
ActiveHandlerKeep(p) ==
    /\ log' = [log EXCEPT ![p] =
                 @ \o <<Event("auth", "ta_valido"), Event("delete", "ok")>>]
    /\ mem' = [mem EXCEPT ![p] = None]
    /\ Raise(p, ActiveTokenError)
    /\ UNCHANGED <<disk, cacheDir>>

\* Lines 504-514 for a RuntimeError that names an active ticket: the disk
\* entry is deleted, the memory slot cleared, a RuntimeError with its own
\* message raised.  An OSError of the delete leaves the handler instead.
ActiveHandler(p) ==
    LET r == DeleteTokenFromDisk(self_cuit, self_homo, disk, cacheDir, storage)
    IN  /\ disk' = r.disk
        /\ cacheDir' = r.dir
        /\ log' = [log EXCEPT ![p] =
                     @ \o <<Event("auth", "ta_valido"),
                            Event("delete", IF r.raised THEN "os_error"
                                            ELSE "ok")>>]
        /\ IF r.raised
           THEN /\ Raise(p, "os_error")
                /\ UNCHANGED mem
           ELSE /\ mem' = [mem EXCEPT ![p] = None]
                /\ Raise(p, ActiveTokenError)

\* A variant of GT_AuthFail that authenticates again after a failure.
GT_AuthFailRetry(p, err) ==
    /\ pc[p] = "gt_auth"
    /\ log' = [log EXCEPT ![p] = Append(@, Event("auth", err))]
    /\ UNCHANGED <<cacheVars, issueVars, histVars, wsaaVars, raceVars, self_cuit, self_homo,
                   mem, pc, site, tdisk, token_data, outcome, cred>>

\* A variant of GT_AuthFail that deletes the disk entry and clears the memory
\* slot on every error.
GT_AuthFailClear(p, err) ==
    /\ pc[p] = "gt_auth"
    /\ LET r == DeleteTokenFromDisk(self_cuit, self_homo, disk, cacheDir, storage)
       IN  /\ disk' = r.disk
           /\ cacheDir' = r.dir
    /\ mem' = [mem EXCEPT ![p] = None]
    /\ Raise(p, IF err = "ta_valido" THEN ActiveTokenError ELSE err)
    /\ log' = [log EXCEPT ![p] = Append(@, Event("auth", err))]
    /\ fh' = HandlesAfter(disk')
    /\ UNCHANGED <<now, storage, res, issueVars, self_cuit, self_homo,
                   histVars, wsaaVars, lastWrite, site, tdisk, token_data, cred>>

\* Line 503, wsaa_get_token raises.
GT_AuthFail(p, err) ==
    /\ pc[p] = "gt_auth"
    /\ IF err = "ta_valido"
       THEN ActiveHandler(p)
       ELSE /\ Raise(p, err)
            /\ log' = [log EXCEPT ![p] = Append(@, Event("auth", err))]
            /\ UNCHANGED <<disk, cacheDir, mem>>
    /\ fh' = HandlesAfter(disk')
    /\ UNCHANGED <<now, storage, res, issueVars, self_cuit, self_homo,
                   histVars, wsaaVars, lastWrite, site, tdisk, token_data, cred>>

\* Lines 515-517: the new credential is saved, kept and returned.
GT_Save(p) ==
    /\ pc[p] = "gt_save"
    /\ LET r == SaveTokenToDisk(self_cuit, self_homo, token_data[p][1], disk, cacheDir,
                                storage)
       IN  /\ disk' = r.disk
           /\ cacheDir' = r.dir
           /\ log' = [log EXCEPT ![p] =
                        Append(@, Event("save", IF r.raised THEN "os_error"
                                                ELSE "ok"))]
           /\ IF r.raised
              THEN /\ Raise(p, "os_error")
                   /\ UNCHANGED <<mem, cred, lastWrite>>
              ELSE /\ mem' = [mem EXCEPT ![p] = token_data[p]]
                   /\ lastWrite' = IF storage = "ok" THEN token_data[p]
                                   ELSE lastWrite
                   /\ LeaveGetToken(p, token_data[p][1])
    /\ UNCHANGED <<now, storage, res, issueVars, self_cuit, self_homo,
                   histVars, wsaaVars, fh, site,
                   tdisk, token_data>>

\* The caller has its result; the locals of the operation are gone.
Finish(p) ==
    /\ pc[p] = "done"
    /\ pc' = [pc EXCEPT ![p] = "idle"]
    /\ site' = [site EXCEPT ![p] = ""]
    /\ tdisk' = [tdisk EXCEPT ![p] = None]
    /\ token_data' = [token_data EXCEPT ![p] = None]
    /\ outcome' = [outcome EXCEPT ![p] = NoOutcome]
    /\ log' = [log EXCEPT ![p] = << >>]
    /\ cred' = [cred EXCEPT ![p] = None]
    /\ row' = [row EXCEPT ![p] = NoRow]
    /\ pv' = [pv EXCEPT ![p] = 0]
    /\ last_number' = [last_number EXCEPT ![p] = 0]
    /\ gi' = [gi EXCEPT ![p] = NoInvoicesFrame]
    /\ rg' = [rg EXCEPT ![p] = NoRangeFrame]
    /\ UNCHANGED <<cacheVars, self_cuit, self_homo, raceVars, wsaaVars, mem,
                   remoteLast, approved>>

\* The process restarts, or the next request builds a new ARCAClient
\* (__init__, line 473).
Restart(p) ==
    /\ pc[p] = "idle"
    /\ ~IsNone(mem[p])
    /\ mem' = [mem EXCEPT ![p] = None]
    /\ UNCHANGED <<cacheVars, issueVars, self_cuit, self_homo, histVars, wsaaVars,
                   raceVars, pc, site, tdisk,
                   token_data, outcome, log, cred>>

\* The clock of the facade specifications.
TickFacade == Tick /\ UNCHANGED <<facadeVars, issueVars, histVars, wsaaVars, raceVars>>

\* One facade, its cache file as earlier runs left it.
Init ==
    /\ now \in 0 .. MaxNow
    /\ self_cuit \in Cuits
    /\ self_homo \in BOOLEAN
    /\ FacadeIdle
    /\ cacheDir \in BOOLEAN
    /\ disk \in [{PathName(self_cuit, self_homo)} -> Files]
    /\ ~cacheDir => \A f \in DOMAIN disk : IsNone(disk[f])
    /\ storage = "ok"
    /\ res = NoCall

\* One step of _get_token, the authentication answering from dicts.
GetTokenStepFrom(p, dicts) ==
    \/ GT_CheckMem(p)
    \/ GT_Load(p)
    \/ GT_CheckDisk(p)
    \/ \E d \in dicts : GT_AuthOk(p, d)
    \/ \E err \in WsaaErrors : GT_AuthFail(p, err)
    \/ GT_Save(p)

GetTokenStep(p) == GetTokenStepFrom(p, WsaaDicts)

Next ==
    \/ TickFacade
    \/ StartGetToken("p1")
    \/ GetTokenStep("p1")
    \/ Finish("p1")
    \/ Restart("p1")

Spec == Init /\ [][Next]_vars

\* The file system changes condition: the directory turns read-only
\* ("readonly": writes and unlinks fail) or cannot be reached or created
\* ("nodir": mkdir fails), or works again.
StorageChange(s) ==
    /\ s # storage
    /\ storage' = s
    /\ UNCHANGED <<now, disk, cacheDir, res, facadeVars, issueVars, histVars, wsaaVars,
                   raceVars>>

NextFault ==
    \/ Next
    \/ \E s \in {"ok", "readonly", "nodir"} : StorageChange(s)

\* The facade on a file system that can fail.
SpecFault == Init /\ [][NextFault]_vars

-----------------------------------------------------------------------------
(* issue_invoice and the invoicing service *)

\* The value of a text of decimal digits: int(...).
DigitValue(c) ==
    CASE c = "0" -> 0 [] c = "1" -> 1 [] c = "2" -> 2 [] c = "3" -> 3
      [] c = "4" -> 4 [] c = "5" -> 5 [] c = "6" -> 6 [] c = "7" -> 7
      [] c = "8" -> 8 [] c = "9" -> 9
Digits == {"0", "1", "2", "3", "4", "5", "6", "7", "8", "9"}
RECURSIVE IntOf(_)
IntOf(s) ==
    IF s = << >> THEN 0
    ELSE 10 * IntOf(SubSeq(s, 1, Len(s) - 1)) + DigitValue(s[Len(s)])

\* Lines 585-586: re.match(r"[Cc](\d+)-", comp_nro): a "C" or "c", the
\* longest run of digits, a "-"; pv is the number of the digits, or 2 when
\* the text does not start like that.
ParsePv(comp_nro) ==
    LET run == {k \in 1 .. Len(comp_nro) - 1 :
                   \A i \in 2 .. k + 1 : comp_nro[i] \in Digits}
        len == IF run = {} THEN 0
               ELSE CHOOSE k \in run : \A j \in run : j <= k
    IN  IF /\ Len(comp_nro) >= 3
           /\ comp_nro[1] \in {"C", "c"}
           /\ len >= 1
           /\ len + 2 <= Len(comp_nro)
           /\ comp_nro[len + 2] = "-"
        THEN IntOf(SubSeq(comp_nro, 2, len + 1))
        ELSE 2

\* A variant of NextNumber that sends the last number again.
NextNumberSame(last) == last

\* Line 594: invoice_number = last_number + 1
NextNumber(last) == last + 1

\* What can happen to a FECompUltimoAutorizado request: the service answers
\* with its last number as CbteNro ("number"), answers without CbteNro
\* ("nonumber"), answers with a SOAP fault, or is not reached.
QueryFates == {"number", "nonumber", "fault", "transport"}

\* The answer to a last-number query for a point of sale.
QueryResponse(fate, ptovta) ==
    CASE fate = "number" ->
           [kind |-> "response", nro |-> Some(remoteLast[ptovta])]
      [] fate = "nonumber" -> [kind |-> "response", nro |-> None]
      [] OTHER -> [kind |-> fate, nro |-> None]

\* A variant of WsfeGetLastInvoiceNumber that takes the number 0 for an
\* error.
WsfeGetLastInvoiceNumberStrict(resp) ==
    IF resp.kind # "response"
    THEN [raised |-> TRUE, err |-> "wsfe_" \o resp.kind, val |-> 0]
    ELSE IF IsNone(resp.nro) \/ resp.nro[1] = 0
    THEN [raised |-> TRUE, err |-> "wsfe_no_invoices", val |-> 0]
    ELSE [raised |-> FALSE, err |-> "", val |-> resp.nro[1]]

\* wsfe_get_last_invoice_number on an answer: the number, 0 when the
\* response has no CbteNro, or the error raised.
WsfeGetLastInvoiceNumber(resp) ==
    IF resp.kind # "response"
    THEN [raised |-> TRUE, err |-> "wsfe_" \o resp.kind, val |-> 0]
    ELSE [raised |-> FALSE, err |-> "",
          val |-> IF IsNone(resp.nro) THEN 0 ELSE resp.nro[1]]

\* An Err or Obs element of a FECAESolicitar response: its Code and the text
\* of its Msg, None when the element has no Msg or a blank one.
Item(tag, code, msg) == [tag |-> tag, code |-> code, msg |-> msg]

\* The Err and Obs elements of a rejected response, in document order: none,
\* one error, two errors and an observation, an observation before an error,
\* an error without Msg, alone and after an error with one.
RejectionItems ==
    {<< >>,
     <<Item("Err", "10016", Some("fecha"))>>,
     <<Item("Err", "10016", Some("fecha")), Item("Err", "10048", Some("total")),
       Item("Obs", "10217", Some("iva"))>>,
     <<Item("Obs", "10217", Some("iva")), Item("Err", "10016", Some("fecha"))>>,
     <<Item("Err", "10016", None)>>,
     <<Item("Err", "10048", Some("total")), Item("Err", "10016", None)>>}

\* A line of the message of the rejection: the heading, "Errors:",
\* "Observations:", the line of an element, or the raw response.
Line(kind, code, msg) == [kind |-> kind, code |-> code, msg |-> msg]

\* The lines lines 418-429 make of the elements with the given tag that have
\* a Msg.
MsgLines(items, tag) ==
    LET withMsg == SelectSeq(items, LAMBDA el : el.tag = tag /\ ~IsNone(el.msg))
    IN  [i \in 1 .. Len(withMsg) |->
           Line(tag, withMsg[i].code, withMsg[i].msg[1])]

\* A variant of RejectionLines that takes only the first error and the first
\* observation.
RejectionLinesFirst(items) ==
    LET First(lines) == IF lines = << >> THEN << >> ELSE <<lines[1]>>
        err_msgs == First(MsgLines(items, "Err"))
        obs_msgs == First(MsgLines(items, "Obs"))
    IN  <<Line("rejected", "", "")>>
          \o (IF err_msgs # << >>
              THEN <<Line("Errors:", "", "")>> \o err_msgs ELSE << >>)
          \o (IF obs_msgs # << >>
              THEN <<Line("Observations:", "", "")>> \o obs_msgs ELSE << >>)
          \o (IF err_msgs = << >> /\ obs_msgs = << >>
              THEN <<Line("raw", "", "")>> ELSE << >>)

\* The message of the RuntimeError of a rejection, lines 417-430: the
\* heading, the errors, the observations, and the raw response when neither
\* an error nor an observation had a Msg.
RejectionLines(items) ==
    LET err_msgs == MsgLines(items, "Err")
        obs_msgs == MsgLines(items, "Obs")
    IN  <<Line("rejected", "", "")>>
          \o (IF err_msgs # << >>
              THEN <<Line("Errors:", "", "")>> \o err_msgs ELSE << >>)
          \o (IF obs_msgs # << >>
              THEN <<Line("Observations:", "", "")>> \o obs_msgs ELSE << >>)
          \o (IF err_msgs = << >> /\ obs_msgs = << >>
              THEN <<Line("raw", "", "")>> ELSE << >>)

\* A variant of ObsList that keeps the first observation only.
ObsListFirst(items) ==
    LET withMsg == SelectSeq(items, LAMBDA el : el.tag = "Obs" /\ ~IsNone(el.msg))
    IN  IF withMsg = << >> THEN << >>
        ELSE << <<withMsg[1].code, withMsg[1].msg[1]>> >>

\* obs_list of lines 408-415: code and message of every Obs element with a
\* Msg, in the order of root.iter().
ObsList(items) ==
    LET withMsg == SelectSeq(items, LAMBDA el : el.tag = "Obs" /\ ~IsNone(el.msg))
    IN  [i \in 1 .. Len(withMsg) |-> <<withMsg[i].code, withMsg[i].msg[1]>>]

\* A variant of WsfeRequestCae without the check of the CAE.
WsfeRequestCaeAnyCae(resp, invoice_number) ==
    IF resp.kind # "response"
    THEN [raised |-> TRUE, err |-> "wsfe_" \o resp.kind, msg |-> << >>,
          val |-> None]
    ELSE IF resp.resultado = "R"
    THEN [raised |-> TRUE, err |-> "cae_rejected",
          msg |-> RejectionLines(resp.items), val |-> None]
    ELSE [raised |-> FALSE, err |-> "", msg |-> << >>,
          val |-> Some([cae |-> resp.cae, invoice_number |-> invoice_number,
                        resultado |-> resp.resultado,
                        obs |-> ObsList(resp.items)])]

\* A variant of WsfeRequestCae without the check of Resultado.
WsfeRequestCaeUnchecked(resp, invoice_number) ==
    IF resp.kind # "response"
    THEN [raised |-> TRUE, err |-> "wsfe_" \o resp.kind, msg |-> << >>,
          val |-> None]
    ELSE IF ~resp.cae
    THEN [raised |-> TRUE, err |-> "cae_not_returned", msg |-> << >>,
          val |-> None]
    ELSE [raised |-> FALSE, err |-> "", msg |-> << >>,
          val |-> Some([cae |-> resp.cae, invoice_number |-> invoice_number,
                        resultado |-> resp.resultado,
                        obs |-> ObsList(resp.items)])]

\* wsfe_request_cae on an answer: a fault or transport error is raised, a
\* response with Resultado "R" raises the rejection, one without CAE raises
\* too, any other gives the result dict.
WsfeRequestCae(resp, invoice_number) ==
    IF resp.kind # "response"
    THEN [raised |-> TRUE, err |-> "wsfe_" \o resp.kind, msg |-> << >>,
          val |-> None]
    ELSE IF resp.resultado = "R"
    THEN [raised |-> TRUE, err |-> "cae_rejected",
          msg |-> RejectionLines(resp.items), val |-> None]
    ELSE IF ~resp.cae
    THEN [raised |-> TRUE, err |-> "cae_not_returned", msg |-> << >>,
          val |-> None]
    ELSE [raised |-> FALSE, err |-> "", msg |-> << >>,
          val |-> Some([cae |-> resp.cae, invoice_number |-> invoice_number,
                        resultado |-> resp.resultado,
                        obs |-> ObsList(resp.items)])]

\* What can happen to a FECAESolicitar request: the service processes it
\* ("process": it approves the number that follows its last one, and rejects
\* any other), rejects it for another reason ("reject"), answers without
\* Resultado "R" and without CAE ("nocae"), answers with a SOAP fault, or is
\* not reached.
SubmitFates == {"process", "reject", "nocae", "fault", "transport"}

\* The answer to a submission of number n for a point of sale.
SubmitResponse(fate, ptovta, n, items) ==
    CASE fate = "process" ->
           IF n = remoteLast[ptovta] + 1
           THEN [kind |-> "response", resultado |-> "A", cae |-> TRUE,
                 items |-> << >>]
           ELSE [kind |-> "response", resultado |-> "R", cae |-> FALSE,
                 items |-> items]
      [] fate = "reject" ->
           [kind |-> "response", resultado |-> "R", cae |-> FALSE,
            items |-> items]
      [] fate = "nocae" ->
           [kind |-> "response", resultado |-> "A", cae |-> FALSE,
            items |-> << >>]
      [] OTHER -> [kind |-> fate, resultado |-> "", cae |-> FALSE,
                   items |-> << >>]

\* How a call of the service shows in the log.
ResponseTag(resp) ==
    IF resp.kind # "response" THEN resp.kind
    ELSE IF resp.resultado = "R" THEN "R"
    ELSE IF resp.cae THEN "A" ELSE "nocae"

\* A caller calls client.issue_invoice(row), lines 585-593: pv is taken from
\* the row, the date is rearranged (a fecha_emision that does not split in
\* three raises ValueError), get_last_invoice_number asks for a credential.
StartIssue(p, r) ==
    /\ pc[p] = "idle"
    /\ remoteLast[ParsePv(r.comp_nro)] < MaxSeq
    /\ row' = [row EXCEPT ![p] = r]
    /\ pv' = [pv EXCEPT ![p] = ParsePv(r.comp_nro)]
    /\ IF r.fecha = "bad"
       THEN /\ Raise(p, "value_error")
            /\ site' = [site EXCEPT ![p] = "issue"]
       ELSE /\ EnterGetToken(p, "last")
            /\ UNCHANGED outcome
    /\ UNCHANGED <<cacheVars, self_cuit, self_homo, histVars, wsaaVars, raceVars, mem,
                   tdisk, token_data, log,
                   cred, last_number, remoteLast, approved>>

\* A caller calls client.get_last_invoice_number(punto_venta), line 522.
StartGetLast(p, punto_venta) ==
    /\ pc[p] = "idle"
    /\ pv' = [pv EXCEPT ![p] = punto_venta]
    /\ EnterGetToken(p, "getlast")
    /\ UNCHANGED <<cacheVars, self_cuit, self_homo, histVars, wsaaVars, raceVars, mem,
                   tdisk, token_data, outcome, log, cred, row, last_number,
                   remoteLast, approved>>

\* A variant of GL_Query in which issue_invoice takes a failed query for
\* the number 0 and goes on.
GL_QueryGoOn(p, fate) ==
    /\ pc[p] = "gl_query"
    /\ LET r == WsfeGetLastInvoiceNumber(QueryResponse(fate, pv[p]))
       IN  /\ log' = [log EXCEPT ![p] =
                        Append(@, WithCred(WsfeEvent("query",
                                            IF r.raised THEN r.err ELSE "ok",
                                            pv[p], r.val), cred[p]))]
           /\ IF r.raised /\ site[p] = "getlast"
              THEN /\ Raise(p, r.err)
                   /\ UNCHANGED <<last_number, site>>
              ELSE IF site[p] = "getlast"
              THEN /\ pc' = [pc EXCEPT ![p] = "done"]
                   /\ outcome' = [outcome EXCEPT ![p] = ReturnedValue(r.val)]
                   /\ UNCHANGED <<last_number, site>>
              ELSE /\ last_number' = [last_number EXCEPT ![p] = r.val]
                   /\ EnterGetToken(p, "submit")
                   /\ UNCHANGED outcome
    /\ UNCHANGED <<cacheVars, self_cuit, self_homo, histVars, wsaaVars, raceVars, mem,
                   tdisk, token_data, cred,
                   row, pv, remoteLast, approved>>

\* Line 523: the last number of the point of sale is asked for and returned;
\* inside issue_invoice (line 593) line 594 and the second _get_token of
\* line 595 follow.
GL_Query(p, fate) ==
    /\ pc[p] = "gl_query"
    /\ LET r == WsfeGetLastInvoiceNumber(QueryResponse(fate, pv[p]))
       IN  /\ log' = [log EXCEPT ![p] =
                        Append(@, WithCred(WsfeEvent("query",
                                            IF r.raised THEN r.err ELSE "ok",
                                            pv[p], r.val), cred[p]))]
           /\ IF r.raised
              THEN /\ Raise(p, r.err)
                   /\ UNCHANGED <<last_number, site>>
              ELSE IF site[p] = "getlast"
              THEN /\ pc' = [pc EXCEPT ![p] = "done"]
                   /\ outcome' = [outcome EXCEPT ![p] = ReturnedValue(r.val)]
                   /\ UNCHANGED <<last_number, site>>
              ELSE /\ last_number' = [last_number EXCEPT ![p] = r.val]
                   /\ EnterGetToken(p, "submit")
                   /\ UNCHANGED outcome
    /\ UNCHANGED <<cacheVars, self_cuit, self_homo, histVars, wsaaVars, raceVars, mem,
                   tdisk, token_data, cred,
                   row, pv, remoteLast, approved>>

\* Lines 596-601: the arguments are built (float(amount) raises ValueError
\* for a text that is no number) and wsfe_request_cae sends the invoice; the
\* service approves it or not; the result is returned or the error raised.
ISS_Submit(p, fate, items) ==
    /\ pc[p] = "iss_submit"
    /\ IF ~row[p].amount
       THEN /\ Raise(p, "value_error")
            /\ UNCHANGED <<log, remoteLast, approved>>
       ELSE LET n == NextNumber(last_number[p])
                resp == SubmitResponse(fate, pv[p], n, items)
                r == WsfeRequestCae(resp, n)
            IN  /\ log' = [log EXCEPT ![p] =
                             Append(@, WithCred(SubmitEvent(ResponseTag(resp),
                                                   pv[p], n, resp.items),
                                                cred[p]))]
                /\ IF resp.kind = "response" /\ resp.resultado = "A" /\ resp.cae
                   THEN /\ remoteLast' = [remoteLast EXCEPT ![pv[p]] = n]
                        /\ approved' = [approved EXCEPT ![pv[p]] =
                                           Append(@, n)]
                   ELSE UNCHANGED <<remoteLast, approved>>
                /\ IF r.raised
                   THEN /\ pc' = [pc EXCEPT ![p] = "done"]
                        /\ outcome' = [outcome EXCEPT ![p] =
                                         RaisedWith(r.err, r.msg)]
                   ELSE /\ pc' = [pc EXCEPT ![p] = "done"]
                        /\ outcome' = [outcome EXCEPT ![p] =
                                         ReturnedInvoice(r.val[1])]
    /\ UNCHANGED <<cacheVars, self_cuit, self_homo, histVars, wsaaVars, raceVars, mem,
                   site, tdisk, token_data,
                   cred, row, pv, last_number>>

\* What the authentication answers while invoices are issued: a credential
\* good for hours, or one without expiration.
IssueDicts ==
    {TokenData("tokA", IsoExp(MaxNow + Margin + 1)), TokenData("tokB", NullExp)}

\* Two requests at a time, each with its client, one cache file and one
\* service for both; the cache is empty or holds a credential.
InitIssue ==
    /\ now = 0
    /\ self_cuit = CleanCuit(<<"2", "-", "0">>)
    /\ self_homo = TRUE
    /\ FacadeIdle
    /\ cacheDir = TRUE
    /\ disk \in [{PathName(self_cuit, self_homo)} ->
                   {None} \cup {Some(JsonDumps(d)) : d \in IssueDicts}]
    /\ storage = "ok"
    /\ res = NoCall

NextIssue ==
    \E p \in Procs :
        \/ \E r \in Rows : StartIssue(p, r)
        \/ GetTokenStepFrom(p, IssueDicts)
        \/ \E fate \in QueryFates : GL_Query(p, fate)
        \/ \E fate \in SubmitFates : ISS_Submit(p, fate, << >>)
        \/ Finish(p)
        \/ Restart(p)

SpecIssue == InitIssue /\ [][NextIssue]_vars

-----------------------------------------------------------------------------
(* Dates and their texts *)

\* Texts are sequences of characters; the characters met are the digits and
\* the separators "/" and "-".  CharCode gives their code points, by which
\* Python orders strings.
CharCode(c) ==
    CASE c = "-" -> 45 [] c = "/" -> 47 [] OTHER -> 48 + DigitValue(c)

\* a < b for two texts, as Python compares str: by the first place where
\* they differ, a proper prefix being smaller.
StrLess(a, b) ==
    \E i \in 1 .. Len(b) :
      /\ i <= Len(a) + 1
      /\ \A j \in 1 .. (i - 1) : a[j] = b[j]
      /\ (i = Len(a) + 1 \/ CharCode(a[i]) < CharCode(b[i]))

\* The decimal digits of a number, n places wide.
DigitChar(v) == CHOOSE c \in Digits : DigitValue(c) = v
RECURSIVE Places10(_, _)
Places10(v, n) ==
    IF n = 0 THEN << >>
    ELSE Append(Places10(v \div 10, n - 1), DigitChar(v % 10))

\* The service's text of a date, "YYYYMMDD", and the caller's, "YYYY-MM-DD".
Ymd(y, m, d) == Places10(y, 4) \o Places10(m, 2) \o Places10(d, 2)
Iso(y, m, d) ==
    Places10(y, 4) \o <<"-">> \o Places10(m, 2) \o <<"-">> \o Places10(d, 2)

\* datetime.date: a calendar date is its proleptic Gregorian ordinal.
IsLeap(y) == y % 4 = 0 /\ (y % 100 # 0 \/ y % 400 = 0)
DaysInMonth(y, m) ==
    IF m = 2 THEN (IF IsLeap(y) THEN 29 ELSE 28)
    ELSE IF m \in {4, 6, 9, 11} THEN 30 ELSE 31
RECURSIVE DaysBeforeMonth(_, _)
DaysBeforeMonth(y, m) ==
    IF m = 1 THEN 0 ELSE DaysBeforeMonth(y, m - 1) + DaysInMonth(y, m - 1)
Ordinal(y, m, d) ==
    365 * (y - 1) + ((y - 1) \div 4) - ((y - 1) \div 100) + ((y - 1) \div 400)
      + DaysBeforeMonth(y, m) + d

\* datetime(y, m, d): ok = FALSE stands for ValueError.
MakeDate(y, m, d) ==
    IF y \in 1 .. 9999 /\ m \in 1 .. 12 /\ d >= 1 /\ d <= DaysInMonth(y, m)
    THEN [ok |-> TRUE, date |-> Ordinal(y, m, d)]
    ELSE [ok |-> FALSE, date |-> 0]

\* int(text) for a text of digits; ok = FALSE stands for ValueError.
IsDigits(s) == s # << >> /\ \A i \in 1 .. Len(s) : s[i] \in Digits

\* datetime.fromisoformat(text).date() for a text "YYYY-MM-DD".
FromIsoFormat(s) ==
    IF /\ Len(s) = 10
       /\ s[5] = "-" /\ s[8] = "-"
       /\ IsDigits(SubSeq(s, 1, 4)) /\ IsDigits(SubSeq(s, 6, 7))
       /\ IsDigits(SubSeq(s, 9, 10))
    THEN MakeDate(IntOf(SubSeq(s, 1, 4)), IntOf(SubSeq(s, 6, 7)),
                  IntOf(SubSeq(s, 9, 10)))
    ELSE [ok |-> FALSE, date |-> 0]

\* _fmt_date_afip(yyyymmdd): "YYYYMMDD" becomes "DD/MM/YYYY"; a missing text
\* becomes "", a text of another length is returned as it is.
FmtDateAfip(yyyymmdd) ==
    IF IsNone(yyyymmdd) THEN << >>
    ELSE IF Len(yyyymmdd[1]) # 8 THEN yyyymmdd[1]
    ELSE SubSeq(yyyymmdd[1], 7, 8) \o <<"/">> \o SubSeq(yyyymmdd[1], 5, 6)
           \o <<"/">> \o SubSeq(yyyymmdd[1], 1, 4)

\* text.split("/")
RECURSIVE Split(_)
Split(s) ==
    IF \A i \in 1 .. Len(s) : s[i] # "/" THEN <<s>>
    ELSE LET k == CHOOSE i \in 1 .. Len(s) :
                    s[i] = "/" /\ \A j \in 1 .. (i - 1) : s[j] # "/"
         IN  <<SubSeq(s, 1, k - 1)>> \o Split(SubSeq(s, k + 1, Len(s)))

\* Lines 565-566: d, m, y = fecha_str.split("/") and
\* datetime(int(y), int(m), int(d)).date(); ok = FALSE stands for the
\* exception of line 569.
ParseFecha(fecha_str) ==
    LET parts == Split(fecha_str)
    IN  IF Len(parts) = 3 /\ \A i \in 1 .. 3 : IsDigits(parts[i])
        THEN MakeDate(IntOf(parts[3]), IntOf(parts[2]), IntOf(parts[1]))
        ELSE [ok |-> FALSE, date |-> 0]

-----------------------------------------------------------------------------
(* wsfe_query_invoice, wsfe_query_invoices_range and get_invoices *)

\* The CbteFch the service holds for an invoice, by point of sale and
\* number: one of two texts each.  Among them are the dates 2026-01-10,
\* 2026-02-15 and 2026-03-01, no CbteFch at all, a month that does not
\* exist and a text that is too short.
LedgerDates(punto_venta, n) ==
    CASE punto_venta = 1 /\ n = 1 -> {Some(Ymd(2026, 1, 10)), None}
      [] punto_venta = 1 /\ n = 2 ->
           {Some(Ymd(2026, 2, 15)), Some(<<"2", "0", "2", "6", "0", "2">>)}
      [] punto_venta = 1 -> {Some(Ymd(2026, 3, 1)), Some(Ymd(2026, 13, 1))}
      [] punto_venta = 2 /\ n = 1 ->
           {Some(Ymd(2026, 3, 1)), Some(Ymd(2026, 2, 15))}
      [] punto_venta = 2 /\ n = 2 ->
           {Some(Ymd(2026, 1, 10)), Some(Ymd(2026, 13, 1))}
      [] OTHER -> {Some(Ymd(2026, 2, 15))}

\* What can come of a FECompConsultar request: a response with its CbteFch
\* and an ImpTotal that float() takes (amount) or not, a SOAP fault, or no
\* answer.
LookupResponse(kind, fch, amount) ==
    [kind |-> kind, fch |-> fch, amount |-> amount]
LookupFailures ==
    {LookupResponse("fault", None, TRUE),
     LookupResponse("transport", None, TRUE),
     LookupResponse("response", Some(Ymd(2026, 2, 15)), FALSE)}
LookupResponses(punto_venta, n) ==
    {LookupResponse("response", f, TRUE) : f \in LedgerDates(punto_venta, n)}
      \cup {LookupResponse("fault", None, TRUE)}
RangeResponses ==
    {LookupResponse("response", Some(Ymd(2026, 2, 15)), TRUE)}
      \cup LookupFailures

\* wsfe_query_invoice on an answer: the record, or the error raised.
WsfeQueryInvoice(resp, punto_venta, invoice_number) ==
    IF resp.kind # "response"
    THEN [raised |-> TRUE, err |-> "wsfe_" \o resp.kind, val |-> None]
    ELSE IF ~resp.amount
    THEN [raised |-> TRUE, err |-> "value_error", val |-> None]
    ELSE [raised |-> FALSE, err |-> "",
          val |-> Some([punto_venta |-> punto_venta,
                        invoice_number |-> invoice_number,
                        fecha_emision |-> FmtDateAfip(resp.fch)])]

\* A variant of DateInWindow that leaves the last day out.
DateInWindowOpen(date, date_from, date_to) ==
    date_from <= date /\ date < date_to

\* Line 567: date_from <= inv_date <= date_to
DateInWindow(date, date_from, date_to) ==
    date_from <= date /\ date <= date_to

\* A variant of KeepInvoice that drops a record whose date does not parse.
KeepInvoiceParsed(inv, date_from, date_to) ==
    LET d == ParseFecha(inv.fecha_emision)
    IN  d.ok /\ DateInWindow(d.date, date_from, date_to)

\* Lines 563-570: a record is kept when its date lies in the window or does
\* not parse.
KeepInvoice(inv, date_from, date_to) ==
    LET d == ParseFecha(inv.fecha_emision)
    IN  IF d.ok THEN DateInWindow(d.date, date_from, date_to) ELSE TRUE

\* Lines 575-578: the key (fecha_emision, invoice_number) and its order.
KeyLess(a, b) ==
    \/ StrLess(a.fecha_emision, b.fecha_emision)
    \/ /\ a.fecha_emision = b.fecha_emision
       /\ a.invoice_number < b.invoice_number

\* list.sort(key=..., reverse=True): descending by key, records of equal key
\* in the order they had.
RECURSIVE SortInvoices(_)
SortInvoices(l) ==
    IF l = << >> THEN << >>
    ELSE LET front == SortInvoices(SubSeq(l, 1, Len(l) - 1))
             x     == l[Len(l)]
             k     == Cardinality({i \in 1 .. Len(front) :
                                     ~KeyLess(front[i], x)})
         IN  SubSeq(front, 1, k) \o <<x>> \o SubSeq(front, k + 1, Len(front))

\* The arguments of get_invoices: from_date and to_date are None or a text,
\* sales_points None or a list; today is datetime.now().date().
WindowArgs ==
    {[from_date |-> None, to_date |-> None],
     [from_date |-> Some(Iso(2026, 2, 1)), to_date |-> Some(Iso(2026, 2, 28))],
     [from_date |-> Some(Iso(2026, 2, 15)), to_date |-> Some(Iso(2026, 2, 15))],
     [from_date |-> Some(Iso(2026, 1, 10)), to_date |-> None],
     [from_date |-> None, to_date |-> Some(Iso(2026, 2, 30))],
     [from_date |-> Some(<<"2", "0", "2", "6">>), to_date |-> None]}
SalesPointArgs == {None, Some(<< >>), Some(<<2>>), Some(<<2, 1>>)}
Todays == {Ordinal(2026, 3, 31)}

\* A caller calls client.get_invoices(from_date, to_date, sales_points),
\* lines 545-549: the window is parsed (a text that is no date raises
\* ValueError), the points of sale defaulted, a credential asked for.
StartGetInvoices(p, from_date, to_date, sales_points, today) ==
    LET dt == IF IsNone(to_date) THEN [ok |-> TRUE, date |-> today]
              ELSE FromIsoFormat(to_date[1])
        df == IF IsNone(from_date) THEN [ok |-> TRUE, date |-> today - 30]
              ELSE FromIsoFormat(from_date[1])
    IN  /\ pc[p] = "idle"
        /\ IF ~dt.ok \/ ~df.ok
           THEN /\ Raise(p, "value_error")
                /\ site' = [site EXCEPT ![p] = "invoices"]
                /\ UNCHANGED gi
           ELSE /\ gi' = [gi EXCEPT ![p] =
                            [date_from |-> df.date, date_to |-> dt.date,
                             pvs |-> IF IsNone(sales_points)
                                        \/ sales_points[1] = << >>
                                     THEN <<1, 2>> ELSE sales_points[1],
                             i |-> 1, all_invoices |-> << >>,
                             fetched |-> << >>]]
                /\ EnterGetToken(p, "invoices")
                /\ UNCHANGED outcome
        /\ UNCHANGED <<cacheVars, issueVars, raceVars, wsaaVars, self_cuit, self_homo, mem,
                       tdisk, token_data, log, cred, rg>>

\* The loop of line 553 goes to the next point of sale, or is over.
NextPv(p, frame) ==
    /\ gi' = [gi EXCEPT ![p] = [frame EXCEPT !.i = @ + 1]]
    /\ pc' = [pc EXCEPT ![p] =
                IF frame.i + 1 > Len(frame.pvs) THEN "gi_sort" ELSE "gi_last"]

\* A variant of GI_Last in which the error of the query leaves get_invoices.
GI_LastRaise(p, fate) ==
    /\ pc[p] = "gi_last"
    /\ LET ptovta == gi[p].pvs[gi[p].i]
           r == WsfeGetLastInvoiceNumber(QueryResponse(fate, ptovta))
       IN  /\ log' = [log EXCEPT ![p] =
                        Append(@, WsfeEvent("query",
                                            IF r.raised THEN r.err ELSE "ok",
                                            ptovta, r.val))]
           /\ IF r.raised
              THEN /\ Raise(p, r.err)
                   /\ UNCHANGED <<gi, rg>>
              ELSE IF r.val = 0
              THEN /\ NextPv(p, gi[p])
                   /\ UNCHANGED <<rg, outcome>>
              ELSE /\ rg' = [rg EXCEPT ![p] =
                               [punto_venta |-> ptovta, from_number |-> 1,
                                to_number |-> r.val, n |-> 1,
                                invoices |-> << >>]]
                   /\ pc' = [pc EXCEPT ![p] = "rg_lookup"]
                   /\ UNCHANGED <<gi, outcome>>
    /\ UNCHANGED <<cacheVars, issueVars, raceVars, wsaaVars, self_cuit, self_homo, mem,
                   site, tdisk, token_data, cred>>

\* Lines 554-562 and 572-573: the last number of the point of sale is asked
\* for; an error is logged and the point of sale left, as is one with last
\* number 0; otherwise the range 1..last is fetched.
GI_Last(p, fate) ==
    /\ pc[p] = "gi_last"
    /\ LET ptovta == gi[p].pvs[gi[p].i]
           r == WsfeGetLastInvoiceNumber(QueryResponse(fate, ptovta))
       IN  /\ log' = [log EXCEPT ![p] =
                        Append(@, WsfeEvent("query",
                                            IF r.raised THEN r.err ELSE "ok",
                                            ptovta, r.val))]
           /\ IF r.raised \/ r.val = 0
              THEN /\ NextPv(p, gi[p])
                   /\ UNCHANGED rg
              ELSE /\ rg' = [rg EXCEPT ![p] =
                               [punto_venta |-> ptovta, from_number |-> 1,
                                to_number |-> r.val, n |-> 1,
                                invoices |-> << >>]]
                   /\ pc' = [pc EXCEPT ![p] = "rg_lookup"]
                   /\ UNCHANGED gi
    /\ UNCHANGED <<cacheVars, issueVars, raceVars, wsaaVars, self_cuit, self_homo, mem,
                   site, tdisk, token_data, outcome, cred>>

\* wsfe_query_invoices_range called by itself, lines 349-350.
StartRange(p, punto_venta, from_number, to_number) ==
    /\ pc[p] = "idle"
    /\ site' = [site EXCEPT ![p] = "range"]
    /\ rg' = [rg EXCEPT ![p] =
                [punto_venta |-> punto_venta, from_number |-> from_number,
                 to_number |-> to_number, n |-> from_number,
                 invoices |-> << >>]]
    /\ pc' = [pc EXCEPT ![p] =
                IF from_number <= to_number THEN "rg_lookup" ELSE "rg_done"]
    /\ UNCHANGED <<cacheVars, issueVars, raceVars, wsaaVars, self_cuit, self_homo, mem,
                   tdisk, token_data, outcome, log, cred, gi>>

\* A variant of RG_Lookup that ends the loop at the first failed lookup.
RG_LookupStop(p, resp) ==
    /\ pc[p] = "rg_lookup"
    /\ LET f == rg[p]
           r == WsfeQueryInvoice(resp, f.punto_venta, f.n)
       IN  /\ log' = [log EXCEPT ![p] =
                        Append(@, WsfeEvent("lookup",
                                            IF r.raised THEN r.err ELSE "ok",
                                            f.punto_venta, f.n))]
           /\ rg' = [rg EXCEPT ![p] =
                       [f EXCEPT !.n = @ + 1,
                                 !.invoices = IF r.raised THEN @
                                              ELSE Append(@, r.val[1])]]
           /\ pc' = [pc EXCEPT ![p] =
                       IF r.raised \/ f.n + 1 > f.to_number THEN "rg_done"
                       ELSE "rg_lookup"]
    /\ UNCHANGED <<cacheVars, issueVars, raceVars, wsaaVars, self_cuit, self_homo, mem,
                   site, tdisk, token_data, outcome, cred, gi>>

\* Lines 350-355: number n is looked up; its record is appended, or the
\* error logged and the number left out; the loop goes on.
RG_Lookup(p, resp) ==
    /\ pc[p] = "rg_lookup"
    /\ LET f == rg[p]
           r == WsfeQueryInvoice(resp, f.punto_venta, f.n)
       IN  /\ log' = [log EXCEPT ![p] =
                        Append(@, WsfeEvent("lookup",
                                            IF r.raised THEN r.err ELSE "ok",
                                            f.punto_venta, f.n))]
           /\ rg' = [rg EXCEPT ![p] =
                       [f EXCEPT !.n = @ + 1,
                                 !.invoices = IF r.raised THEN @
                                              ELSE Append(@, r.val[1])]]
           /\ pc' = [pc EXCEPT ![p] =
                       IF f.n + 1 > f.to_number THEN "rg_done"
                       ELSE "rg_lookup"]
    /\ UNCHANGED <<cacheVars, issueVars, raceVars, wsaaVars, self_cuit, self_homo, mem,
                   site, tdisk, token_data, outcome, cred, gi>>

\* Line 356: the list is returned; in get_invoices lines 563-570 keep its
\* records by date and the loop goes on.
RG_Return(p) ==
    /\ pc[p] = "rg_done"
    /\ IF site[p] = "range"
       THEN /\ pc' = [pc EXCEPT ![p] = "done"]
            /\ outcome' = [outcome EXCEPT ![p] =
                             ReturnedValue(rg[p].invoices)]
            /\ UNCHANGED gi
       ELSE /\ NextPv(p, [gi[p] EXCEPT
                            !.fetched = @ \o rg[p].invoices,
                            !.all_invoices =
                               @ \o SelectSeq(rg[p].invoices,
                                      LAMBDA inv :
                                        KeepInvoice(inv, gi[p].date_from,
                                                    gi[p].date_to))])
            /\ UNCHANGED outcome
    /\ UNCHANGED <<cacheVars, issueVars, raceVars, wsaaVars, self_cuit, self_homo, mem,
                   site, tdisk, token_data, log, cred, rg>>

\* Lines 575-581: the records are sorted and returned.
GI_Sort(p) ==
    /\ pc[p] = "gi_sort"
    /\ pc' = [pc EXCEPT ![p] = "done"]
    /\ outcome' = [outcome EXCEPT ![p] =
                     ReturnedValue(SortInvoices(gi[p].all_invoices))]
    /\ UNCHANGED <<cacheVars, issueVars, histVars, wsaaVars, raceVars, self_cuit, self_homo,
                   mem, site, tdisk, token_data, log, cred>>

\* Another issuer of the taxpayer (the service's own site, another program)
\* gets an invoice authorized at the first point of sale.
OtherIssuer ==
    /\ remoteLast[1] < MaxLast
    /\ remoteLast' = [remoteLast EXCEPT ![1] = @ + 1]
    /\ approved' = [approved EXCEPT ![1] = Append(@, remoteLast[1] + 1)]
    /\ UNCHANGED <<cacheVars, facadeVars, histVars, wsaaVars, raceVars, row, pv,
                   last_number>>

\* What the authentication answers to the single client: a credential good
\* for hours.
ClientDicts == {TokenData("tokA", IsoExp(MaxNow + Margin + 1))}

\* The ranges wsfe_query_invoices_range is called with by itself.
MaxRange == 5

\* One client, every operation of it, the cache empty at first.
InitClient ==
    /\ InitIssue
    /\ IsNone(disk[PathName(self_cuit, self_homo)])

NextClient ==
    \/ StartGetToken("p1")
    \/ \E v \in PVs : StartGetLast("p1", v)
    \/ \E r \in Rows : StartIssue("p1", r)
    \/ \E w \in WindowArgs, sp \in SalesPointArgs, today \in Todays :
         StartGetInvoices("p1", w.from_date, w.to_date, sp, today)
    \/ \E a \in 1 .. MaxRange, b \in 0 .. MaxRange : StartRange("p1", 1, a, b)
    \/ GetTokenStepFrom("p1", ClientDicts)
    \/ \E fate \in QueryFates : GL_Query("p1", fate)
    \/ \E fate \in SubmitFates, items \in RejectionItems :
         ISS_Submit("p1", fate, items)
    \/ \E fate \in QueryFates : GI_Last("p1", fate)
    \/ /\ site["p1"] = "invoices"
       /\ \E resp \in LookupResponses(rg["p1"].punto_venta, rg["p1"].n) :
            RG_Lookup("p1", resp)
    \/ /\ site["p1"] = "range"
       /\ \E resp \in RangeResponses : RG_Lookup("p1", resp)
    \/ RG_Return("p1")
    \/ GI_Sort("p1")
    \/ Finish("p1")
    \/ OtherIssuer

SpecClient == InitClient /\ [][NextClient]_vars

-----------------------------------------------------------------------------
(* Two processes and one cache file *)

\* The text of a file that open(path, "w") has just created or truncated.
EmptyText == [json |-> FALSE, data |-> TokenData("", MissingExp)]

\* path.write_text of line 163 begins: after the mkdir of _token_cache_path
\* the file is opened for writing, which creates it or truncates it; the
\* text is not in the file yet.  A failing mkdir raises; when the file cannot
\* be opened the except of line 165 logs it and _get_token goes on.
GT_SaveOpen(p) ==
    /\ pc[p] = "gt_save"
    /\ LET pth == TokenCachePath(self_cuit, self_homo, storage, cacheDir)
       IN  /\ cacheDir' = pth.dir
           /\ IF ~pth.ok
              THEN /\ log' = [log EXCEPT ![p] =
                                Append(@, Event("save", "os_error"))]
                   /\ Raise(p, "os_error")
                   /\ UNCHANGED <<disk, fh, mem, cred>>
              ELSE IF storage # "ok"
              THEN /\ log' = [log EXCEPT ![p] = Append(@, Event("save", "ok"))]
                   /\ mem' = [mem EXCEPT ![p] = token_data[p]]
                   /\ LeaveGetToken(p, token_data[p][1])
                   /\ UNCHANGED <<disk, fh>>
              ELSE /\ disk' = [disk EXCEPT ![pth.path] = Some(EmptyText)]
                   /\ fh' = [fh EXCEPT ![p] = "open"]
                   /\ pc' = [pc EXCEPT ![p] = "gt_write"]
                   /\ UNCHANGED <<log, mem, outcome, cred>>
    /\ UNCHANGED <<now, storage, res, issueVars, self_cuit, self_homo,
                   histVars, wsaaVars, lastWrite, site, tdisk, token_data>>

\* path.write_text ends: the text is written at the start of the file the
\* handle is open on and the handle closed; lines 516-517 keep and return the
\* dict.  A handle whose file was unlinked since writes to no entry of the
\* directory.  Onto an empty file, or one with the same text, the text is
\* the content afterwards; onto a text another handle wrote since the
\* truncation it is the content when it is not shorter (fits), and else it
\* is followed by the end of the other text, which is no JSON.
GT_SaveWrite(p, fits) ==
    /\ pc[p] = "gt_write"
    /\ LET path == PathName(self_cuit, self_homo)
           text == JsonDumps(token_data[p][1])
       IN  disk' = IF fh[p] # "open" THEN disk
                   ELSE IF disk[path] \in {Some(EmptyText), Some(text)} \/ fits
                   THEN [disk EXCEPT ![path] = Some(text)]
                   ELSE [disk EXCEPT ![path] = Some(Garbage)]
    /\ fh' = [fh EXCEPT ![p] = "closed"]
    /\ lastWrite' = token_data[p]
    /\ log' = [log EXCEPT ![p] = Append(@, Event("save", "ok"))]
    /\ mem' = [mem EXCEPT ![p] = token_data[p]]
    /\ LeaveGetToken(p, token_data[p][1])
    /\ UNCHANGED <<now, cacheDir, storage, res, issueVars, self_cuit,
                   self_homo, histVars, wsaaVars, site, tdisk, token_data>>

\* What the authentication answers to the two processes: a credential good
\* for hours and one that leaves the margin at the next instant.
RaceDicts ==
    {TokenData("tokA", IsoExp(MaxNow + Margin + 1)),
     TokenData("tokB", IsoExp(Margin + 1))}

\* Two processes, each with its ARCAClient for the same cuit and
\* environment, and an empty cache.
InitRace == InitClient

\* The _get_token calls of the two processes, step by step.
NextRace ==
    \/ TickFacade
    \/ \E p \in Procs :
        \/ StartGetToken(p)
        \/ GT_CheckMem(p)
        \/ GT_Load(p)
        \/ GT_CheckDisk(p)
        \/ \E d \in RaceDicts : GT_AuthOk(p, d)
        \/ \E err \in WsaaErrors : GT_AuthFail(p, err)
        \/ GT_SaveOpen(p)
        \/ \E fits \in BOOLEAN : GT_SaveWrite(p, fits)
        \/ Finish(p)

SpecRace == InitRace /\ [][NextRace]_vars

-----------------------------------------------------------------------------
(* wsaa_get_token and wsfe_request_cae, called directly *)

\* What _xml_find yields for token, sign and expirationTime in one tree: the
\* stripped text of the first element with the tag, None when there is no
\* such element or its text is blank.
Layer(token, sign, expirationTime) ==
    [token |-> token, sign |-> sign, expirationTime |-> expirationTime]

\* A tree without any of the three.
NoLayer == Layer(None, None, None)

\* The trees with the given token, signature and expiration times, each
\* present or not.
Layers(tok, exps) ==
    {Layer(t, g, e) : t \in {None, Some(tok)}, g \in {None, Some(SignOf(tok))},
                      e \in {None} \cup {Some(x) : x \in exps}}

\* The replies to loginCms: a SOAP fault or AFIP error, no reply, or a
\* response.  The text of loginCmsReturn is absent or blank (a deployment
\* that does not escape it has the ticket as elements of the outer tree), no
\* well-formed XML after html.unescape, or a document.  The inner document
\* has tokA and sigA, the outer tree tokB and sigB.
WsaaReplies ==
    {[kind |-> k, login_return |-> "absent", inner |-> NoLayer,
      outer |-> NoLayer] : k \in {"fault", "transport"}}
      \cup {[kind |-> "response", login_return |-> lr, inner |-> NoLayer,
             outer |-> o] :
               lr \in {"absent", "unparseable"},
               o \in Layers("tokB", {IsoExp(Margin + 1), BadExp})}
      \cup {[kind |-> "response", login_return |-> "document", inner |-> i,
             outer |-> o] :
               i \in Layers("tokA", {IsoExp(MaxNow + Margin + 1), BadExp}),
               o \in Layers("tokB", {IsoExp(Margin + 1), BadExp})}

\* The dict of line 248: expiration is the text found, or None.
TicketDict(layer) ==
    [token |-> layer.token[1], sign |-> layer.sign[1],
     expiration |-> IF IsNone(layer.expirationTime) THEN NullExp
                    ELSE layer.expirationTime[1]]

\* A variant of WsaaGetToken that looks in the outer tree for each of the
\* three the inner document does not have.
WsaaGetTokenEach(reply) ==
    IF reply.kind # "response"
    THEN [raised |-> TRUE, err |-> "wsaa_" \o reply.kind, val |-> None]
    ELSE LET inner == IF reply.login_return = "document" THEN reply.inner
                      ELSE NoLayer
             Pick(a, b) == IF IsNone(a) THEN b ELSE a
             found == Layer(Pick(inner.token, reply.outer.token),
                            Pick(inner.sign, reply.outer.sign),
                            Pick(inner.expirationTime,
                                 reply.outer.expirationTime))
         IN  IF IsNone(found.token) \/ IsNone(found.sign)
             THEN [raised |-> TRUE, err |-> "token_sign_not_found",
                   val |-> None]
             ELSE [raised |-> FALSE, err |-> "", val |-> Some(TicketDict(found))]

\* wsaa_get_token on a reply, lines 224-248: a fault or a missing reply
\* raises; token, sign and expiration are taken from the document in
\* loginCmsReturn when there is one (a ParseError is logged), and all three
\* from the outer tree when that gave no token; without token or sign it
\* raises.
WsaaGetToken(reply) ==
    IF reply.kind # "response"
    THEN [raised |-> TRUE, err |-> "wsaa_" \o reply.kind, val |-> None]
    ELSE LET inner == IF reply.login_return = "document" THEN reply.inner
                      ELSE NoLayer
             found == IF IsNone(inner.token) THEN reply.outer ELSE inner
         IN  IF IsNone(found.token) \/ IsNone(found.sign)
             THEN [raised |-> TRUE, err |-> "token_sign_not_found",
                   val |-> None]
             ELSE [raised |-> FALSE, err |-> "", val |-> Some(TicketDict(found))]

\* wsaa_get_token is called and gets the reply.
CallWsaaGetToken(reply) ==
    /\ direct.fn = "none"
    /\ direct' = [fn |-> "wsaa_get_token", resp |-> Some(reply),
                  out |-> Some(WsaaGetToken(reply))]
    /\ UNCHANGED <<cacheVars, facadeVars, issueVars, histVars, raceVars, ts,
                   tras>>

\* The caller has the result of the direct call.
DirectDone ==
    /\ direct.fn # "none"
    /\ direct' = NoDirect
    /\ UNCHANGED <<cacheVars, facadeVars, issueVars, histVars, raceVars, ts,
                   tras>>

\* The Obs elements of a response that is no rejection: none, one, two in
\* either order, one of them without Msg.
ApprovalItems ==
    {<< >>,
     <<Item("Obs", "10217", Some("iva"))>>,
     <<Item("Obs", "10217", Some("iva")), Item("Obs", "10063", Some("cond"))>>,
     <<Item("Obs", "10063", Some("cond")), Item("Obs", "10217", Some("iva"))>>,
     <<Item("Obs", "10063", None), Item("Obs", "10217", Some("iva"))>>}

\* The replies to FECAESolicitar: a SOAP fault or AFIP error, no reply, or a
\* response with Resultado "A", "R", "P" or none (""), with or without the
\* text of a CAE, and with Err and Obs elements.
CaeReplies ==
    {[kind |-> k, resultado |-> "", cae |-> FALSE, items |-> << >>] :
       k \in {"fault", "transport"}}
      \cup {[kind |-> "response", resultado |-> r, cae |-> c, items |-> it] :
               r \in {"A", "R", "P", ""}, c \in BOOLEAN,
               it \in RejectionItems \cup ApprovalItems}

\* The numbers wsfe_request_cae is called with.
CaeNumbers == 1 .. (MaxSeq + 1)

\* wsfe_request_cae is called for a number and gets the reply.
CallWsfeRequestCae(reply, invoice_number) ==
    /\ direct.fn = "none"
    /\ direct' = [fn |-> "wsfe_request_cae", resp |-> Some(reply),
                  out |-> Some(WsfeRequestCae(reply, invoice_number))]
    /\ UNCHANGED <<cacheVars, facadeVars, issueVars, histVars, raceVars, ts,
                   tras>>

InitDirect == InitClient

NextDirect ==
    \/ \E reply \in WsaaReplies : CallWsaaGetToken(reply)
    \/ \E reply \in CaeReplies, n \in CaeNumbers : CallWsfeRequestCae(reply, n)
    \/ DirectDone

SpecDirect == InitDirect /\ [][NextDirect]_vars

-----------------------------------------------------------------------------
(* _build_tra *)

\* int(now.timestamp()) at tick t: the clock ticks twice a second, the
\* fraction of the second is cut off.
Timestamp(t) == t \div 2

\* _build_tra() at tick t: uniqueId is the second of the clock,
\* generationTime ten minutes before it and expirationTime ten hours after
\* it, both printed to the second.
BuildTraAt(t) ==
    [uniqueId |-> Timestamp(t),
     generationTime |-> Timestamp(t) - 10 * 60,
     expirationTime |-> Timestamp(t) + 10 * 60 * 60,
     service |-> "wsfe"]

\* An authentication attempt of some facade of some process builds its
\* request document.
BuildTra ==
    /\ Len(tras) < MaxTras
    /\ tras' = Append(tras, BuildTraAt(ts))
    /\ UNCHANGED <<cacheVars, facadeVars, issueVars, histVars, raceVars,
                   direct, ts>>

\* Half a second passes.
TickTs ==
    /\ ts < MaxTs
    /\ ts' = ts + 1
    /\ UNCHANGED <<cacheVars, facadeVars, issueVars, histVars, raceVars,
                   direct, tras>>

InitTra == InitClient

NextTra == BuildTra \/ TickTs

SpecTra == InitTra /\ [][NextTra]_vars

-----------------------------------------------------------------------------
(* issue_invoice while the clock runs *)

\* What the authentication answers: a credential that leaves the margin at
\* the next instant, and one good for hours.
TimedDicts ==
    {TokenData("tokA", IsoExp(Margin + 1)),
     TokenData("tokB", IsoExp(MaxNow + Margin + 1))}

InitTimed == InitClient

\* One client issues invoices; time passes between the steps.
NextTimed ==
    \/ TickFacade
    \/ \E r \in Rows : StartIssue("p1", r)
    \/ GetTokenStepFrom("p1", TimedDicts)
    \/ \E fate \in QueryFates : GL_Query("p1", fate)
    \/ \E fate \in SubmitFates : ISS_Submit("p1", fate, << >>)
    \/ Finish("p1")

SpecTimed == InitTimed /\ [][NextTimed]_vars

\* The cache directory with whatever earlier runs left in it.
InitCache ==
    /\ now \in 0 .. MaxNow
    /\ cacheDir \in BOOLEAN
    /\ \E S \in PathPairs : disk \in [S -> Files]
    /\ ~cacheDir => \A p \in DOMAIN disk : IsNone(disk[p])
    /\ storage = "ok"
    /\ res = NoCall
    /\ self_cuit = << >>
    /\ self_homo = TRUE
    /\ FacadeIdle

NextCache ==
    \/ Tick
    \/ \E d \in TokenDicts : CallIsValid(d)
    \/ \E c \in Cuits, h \in BOOLEAN : CallLoad(c, h)
    \/ \E c \in Cuits, h \in BOOLEAN, d \in TokenDicts : CallSave(c, h, d)
    \/ \E c \in Cuits, h \in BOOLEAN : CallDelete(c, h)

SpecCache ==
    InitCache
      /\ [][NextCache /\ UNCHANGED <<facadeVars, issueVars, histVars, wsaaVars, raceVars>>]_vars

-----------------------------------------------------------------------------
(* Properties of the cache functions, under SpecCache *)

\* How far ahead of clock value t the expiration of dict d lies.
Ahead(d, t) == d.expiration.t - t

\* The file of the last call's key.
ResPath == PathName(res.cuit, res.homo)

\* The last call read a file holding the JSON of a dict with a timestamp.
PreIsTimed ==
    /\ ~IsNone(res.pre)
    /\ res.pre[1].json
    /\ res.pre[1].data.expiration.k = "iso"

\* The last call read a file that is no JSON or has no timestamp to parse.
PreIsCorrupt ==
    /\ ~IsNone(res.pre)
    /\ \/ ~res.pre[1].json
       \/ res.pre[1].data.expiration.k \in {"bad", "null", "missing"}

\* C1: _is_valid and _load_token_from_disk accept a credential exactly when
\* now < expiration - 5 minutes: 4 and exactly 5 minutes ahead are refused,
\* 6 minutes ahead is accepted, at every clock value.
C1_ExpiryBoundary ==
    /\ (res.op = "is_valid" /\ res.arg[1].expiration.k = "iso") =>
          /\ res.valid <=> Ahead(res.arg[1], res.at) > 5
          /\ Ahead(res.arg[1], res.at) \in {4, 5} => ~res.valid
          /\ Ahead(res.arg[1], res.at) = 6 => res.valid
    /\ (res.op = "load" /\ PreIsTimed) =>
          /\ ~IsNone(res.out) <=> Ahead(res.pre[1].data, res.at) > 5
          /\ Ahead(res.pre[1].data, res.at) \in {4, 5} => IsNone(res.out)
          /\ Ahead(res.pre[1].data, res.at) = 6 =>
                res.out = Some(res.pre[1].data)

\* A load at the last clock value of a credential expiring exactly 5 minutes
\* ahead, refused.
C1_Witness ==
    /\ res.op = "load"
    /\ PreIsTimed
    /\ res.at = MaxNow
    /\ Ahead(res.pre[1].data, res.at) = 5
    /\ IsNone(res.out)

\* C7: save(id, env, cred) directly followed by load(id, env), while cred is
\* outside the safety margin, returns a dict equal to cred.
C7_RoundTrip ==
    (/\ res.op = "load"
     /\ ~IsNone(res.saved)
     /\ res.saved[1].expiration.k = "iso"
     /\ res.at < res.saved[1].expiration.t - 5)
    => /\ ~res.raised
       /\ res.out = res.saved
       /\ res.out[1].token = res.saved[1].token
       /\ res.out[1].sign = res.saved[1].sign
       /\ res.out[1].expiration = res.saved[1].expiration

\* A load that followed a save under the same key, after the clock moved,
\* and returned a dict.
C7_Witness ==
    /\ res.op = "load"
    /\ ~IsNone(res.saved)
    /\ ~IsNone(res.out)
    /\ now > 0
    /\ res.at = now

\* C8: _load_token_from_disk returns None without raising when the file is
\* missing, corrupt or expires within the margin; the corrupt or stale file
\* is gone after the call, a valid one is left unchanged.
C8_LoadAbsent ==
    res.op = "load" =>
      /\ ~res.raised
      /\ IsNone(res.pre) => IsNone(res.out) /\ IsNone(disk[ResPath])
      /\ PreIsCorrupt => IsNone(res.out) /\ IsNone(disk[ResPath])
      /\ (PreIsTimed /\ Ahead(res.pre[1].data, res.at) <= 5) =>
            IsNone(res.out) /\ IsNone(disk[ResPath])
      /\ (PreIsTimed /\ Ahead(res.pre[1].data, res.at) > 5) =>
            ~IsNone(res.out) /\ disk[ResPath] = res.pre

\* A load of a file that was no JSON: None returned, the file gone.
C8_Witness ==
    /\ res.op = "load"
    /\ res.pre = Some(Garbage)
    /\ IsNone(res.out)
    /\ ~res.raised
    /\ IsNone(disk[ResPath])

\* C9: _delete_token_from_disk never fails, whether or not the entry exists
\* and however often it is called, and leaves no entry for the key.
C9_DeleteIdempotent ==
    res.op = "delete" => ~res.raised /\ IsNone(disk[ResPath])

\* A delete directly after a delete of the same key, the entry missing.
C9_Witness ==
    /\ res.op = "delete"
    /\ res.again
    /\ IsNone(res.pre)
    /\ ~res.raised

-----------------------------------------------------------------------------
(* Properties of _get_token, under Spec and SpecFault *)

\* The names of the calls in the log of p, in order.
CallNames(p) == [i \in DOMAIN log[p] |-> log[p][i].call]

\* Dict d is usable at clock value t: now < expiration - 5 minutes.
Usable(d, t) == d.expiration.k = "iso" /\ t < d.expiration.t - 5

\* The cache file of the facades.
SelfPath == PathName(self_cuit, self_homo)

\* The result of the authentication request in the log of p, "" if none.
AuthResult(p) ==
    IF \E i \in DOMAIN log[p] : log[p][i].call = "auth"
    THEN log[p][CHOOSE i \in DOMAIN log[p] : log[p][i].call = "auth"].r
    ELSE ""

\* C2: _get_token returns the valid credential of memory without reading the
\* disk or authenticating; otherwise the valid credential of the disk, copied
\* to memory, without authenticating; only otherwise it authenticates, and
\* the result is on disk and in memory when it is returned.
C2_TokenOrder ==
    \A p \in Procs :
      /\ pc[p] \in {"gt_load", "gt_chk", "gt_auth", "gt_save"} =>
            (IsNone(mem[p]) \/ ~Usable(mem[p][1], now))
      /\ pc[p] \in {"gt_auth", "gt_save"} =>
            (IsNone(tdisk[p]) \/ ~Usable(tdisk[p][1], now))
      /\ (site[p] = "direct" /\ outcome[p].kind = "ret") =>
            \/ /\ CallNames(p) = << >>
               /\ outcome[p].val = mem[p]
               /\ Usable(outcome[p].val[1], outcome[p].at)
            \/ /\ CallNames(p) = <<"load">>
               /\ outcome[p].val = tdisk[p]
               /\ mem[p] = tdisk[p]
               /\ disk[SelfPath] = Some(JsonDumps(tdisk[p][1]))
               /\ Usable(outcome[p].val[1], outcome[p].at)
            \/ /\ CallNames(p) = <<"load", "auth", "save">>
               /\ outcome[p].val = token_data[p]
               /\ mem[p] = token_data[p]
               /\ disk[SelfPath] = Some(JsonDumps(token_data[p][1]))

\* _get_token returned the credential found on disk, a facade restart after
\* an authentication having emptied the memory.
C2_Witness ==
    /\ outcome["p1"].kind = "ret"
    /\ CallNames("p1") = <<"load">>
    /\ mem["p1"] = tdisk["p1"]
    /\ ~IsNone(mem["p1"])

\* C3: whenever _get_token returns, the memory holds the returned credential
\* and that credential satisfies now < expiration - 5 minutes at the return.
C3_ReturnsValid ==
    \A p \in Procs :
      (site[p] = "direct" /\ outcome[p].kind = "ret") =>
        /\ mem[p] = outcome[p].val
        /\ Usable(outcome[p].val[1], outcome[p].at)

\* C6: when the authentication fails naming an active ticket, _get_token
\* deletes the disk entry, leaves the memory empty and raises an error of its
\* own, not the one of the authentication; no entry exists afterwards.
C6_ActiveTicket ==
    \A p \in Procs :
      (pc[p] = "done" /\ AuthResult(p) = "ta_valido") =>
        /\ CallNames(p) = <<"load", "auth", "delete">>
        /\ outcome[p].kind = "raise"
        /\ outcome[p].err = ActiveTokenError
        /\ outcome[p].err \notin WsaaErrors
        /\ IsNone(mem[p])
        /\ IsNone(disk[SelfPath])

\* The entry read from disk went stale before it was checked; the
\* authentication named an active ticket; entry and memory are gone.
C6_Witness ==
    /\ pc["p1"] = "done"
    /\ AuthResult("p1") = "ta_valido"
    /\ ~IsNone(tdisk["p1"])
    /\ outcome["p1"].err = ActiveTokenError
    /\ IsNone(disk[SelfPath])

\* C10: once the authentication has succeeded, _get_token returns the new
\* credential and keeps it in memory whatever happens to the save, a failure
\* to create the cache directory included.
C10_SaveFailureNotFatal ==
    \A p \in Procs :
      (pc[p] = "done" /\ AuthResult(p) = "ok") =>
        /\ outcome[p].kind = "ret"
        /\ outcome[p].val = token_data[p]
        /\ mem[p] = token_data[p]

\* The part of C10 the code keeps: a failed write (the directory exists) is
\* swallowed and the credential returned.
C10_WriteFailureNotFatal ==
    \A p \in Procs :
      (pc[p] = "done" /\ AuthResult(p) = "ok"
         /\ log[p][Len(log[p])] = Event("save", "ok")) =>
        /\ outcome[p].kind = "ret"
        /\ outcome[p].val = token_data[p]
        /\ mem[p] = token_data[p]

-----------------------------------------------------------------------------
(* Properties of issue_invoice, under SpecIssue *)

\* The places of the log of p that hold a call of the given kind.
Places(p, call) == {i \in 1 .. Len(log[p]) : log[p][i].call = call}

\* The log of p ends with a submission.
Submitted(p) == log[p] # << >> /\ log[p][Len(log[p])].call = "submit"
Submission(p) == log[p][Len(log[p])]

\* C4: every submission of issue_invoice carries the number that follows the
\* one its own last-number query returned for the same point of sale, and
\* between that query and the submission the call makes no other request to
\* the invoicing service.
C4_SequenceNumber ==
    \A p \in Procs :
      \A i \in Places(p, "submit") :
        \E j \in Places(p, "query") :
          /\ j < i
          /\ log[p][j].r = "ok"
          /\ log[p][j].pv = log[p][i].pv
          /\ log[p][i].pv = pv[p]
          /\ log[p][i].n = log[p][j].n + 1
          /\ \A k \in (j + 1) .. (i - 1) :
                log[p][k].call \notin {"query", "submit"}

\* An invoice was issued with number 2, after the query returned 1 and the
\* credential was renewed between the query and the submission.
C4_Witness ==
    \E p \in Procs :
      /\ pc[p] = "done"
      /\ outcome[p].kind = "ret"
      /\ Submitted(p)
      /\ Submission(p).n = 2
      /\ \E j \in Places(p, "query"), k \in Places(p, "auth") :
            j < k /\ log[p][j].n = 1

\* C5: the service never authorizes a number twice nor skips one; two
\* submissions of the same number for the same point of sale are never both
\* approved; a caller whose submission is rejected ends with the rejection
\* error, and a caller gets a result only for an approved submission.
C5_Collision ==
    /\ \A v \in PVs :
          /\ approved[v] = [i \in 1 .. Len(approved[v]) |-> i]
          /\ remoteLast[v] = Len(approved[v])
    /\ \A p \in Procs : \A q \in Procs \ {p} :
          \A i \in Places(p, "submit"), j \in Places(q, "submit") :
            (log[p][i].pv = log[q][j].pv /\ log[p][i].n = log[q][j].n) =>
              ~(log[p][i].r = "A" /\ log[q][j].r = "A")
    /\ \A p \in Procs :
          (pc[p] = "done" /\ Submitted(p)) =>
            /\ Submission(p).r = "R" =>
                  (outcome[p].kind = "raise" /\ outcome[p].err = "cae_rejected")
            /\ outcome[p].kind = "ret" =>
                  /\ Submission(p).r = "A"
                  /\ outcome[p].inv[1].invoice_number = Submission(p).n
                  /\ Submission(p).n <= remoteLast[Submission(p).pv]

\* Both callers read the same last number of one point of sale and sent the
\* same number: the first was approved, the second rejected.
C5_Witness ==
    /\ pc["p1"] = "done" /\ pc["p2"] = "done"
    /\ Submitted("p1") /\ Submitted("p2")
    /\ Submission("p1").pv = Submission("p2").pv
    /\ Submission("p1").n = Submission("p2").n
    /\ \E i \in Places("p1", "query"), j \in Places("p2", "query") :
          log["p1"][i].r = "ok" /\ log["p1"][i] = log["p2"][j]
    /\ Submission("p1").r = "A" /\ outcome["p1"].kind = "ret"
    /\ Submission("p2").r = "R" /\ outcome["p2"].err = "cae_rejected"

-----------------------------------------------------------------------------
(* Properties of the client's operations, under SpecClient *)

\* The calls that send a request to a remote service.
RemoteCalls == {"auth", "query", "submit", "lookup"}

\* The places of the log of p where a remote request failed.
FailedPlaces(p) ==
    {i \in 1 .. Len(log[p]) :
       log[p][i].call \in RemoteCalls /\ log[p][i].r \notin {"ok", "A"}}

\* The failure at place i of the log of p ends the operation: only the
\* delete of the cache entry follows it.
EndsOperation(p, i) ==
    /\ pc[p] = "done"
    /\ outcome[p].kind = "raise"
    /\ \A j \in (i + 1) .. Len(log[p]) : log[p][j].call = "delete"

\* C11: a remote request that failed is not sent again in the same call: no
\* later request of the call is the same one; a failed authentication or
\* submission, and a failed last-number query of issue_invoice or
\* get_last_invoice_number, is the last request of the call, which raises.
C11_NoRetry ==
    \A p \in Procs :
      \A i \in FailedPlaces(p) :
        /\ \A j \in (i + 1) .. Len(log[p]) :
              ~(/\ log[p][j].call = log[p][i].call
                /\ log[p][j].pv = log[p][i].pv
                /\ log[p][j].n = log[p][i].n)
        /\ log[p][i].call \in {"auth", "submit"} => EndsOperation(p, i)
        /\ (log[p][i].call = "query" /\ site[p] # "invoices") =>
              EndsOperation(p, i)

\* An issue_invoice call whose submission got no answer: one query, one
\* submission, the error raised.
C11_Witness ==
    \E p \in Procs :
      /\ pc[p] = "done"
      /\ Submitted(p)
      /\ Submission(p).r = "transport"
      /\ Cardinality(Places(p, "submit")) = 1
      /\ outcome[p].err = "wsfe_transport"

\* C12: a facade operation in which a remote request other than a single
\* lookup of the range failed ends with an error that carries a message.
C12_Propagation ==
    \A p \in Procs :
      (/\ pc[p] = "done"
       /\ site[p] \in {"last", "getlast", "submit", "invoices"}
       /\ \E i \in FailedPlaces(p) : log[p][i].call # "lookup") =>
        (outcome[p].kind = "raise" /\ outcome[p].err # "")

\* The lookups of point of sale v in the log of p, in order.
LookupsOf(p, v) ==
    SelectSeq(log[p], LAMBDA ev : ev.call = "lookup" /\ ev.pv = v)

\* The numbers of the records of a list, in order.
NumbersOf(l) == [i \in 1 .. Len(l) |-> l[i].invoice_number]

\* p is in a call of wsfe_query_invoices_range.
InRange(p) ==
    /\ site[p] \in {"range", "invoices"}
    /\ rg[p] # NoRangeFrame
    /\ pc[p] \in {"rg_lookup", "rg_done"} \/ (pc[p] = "done" /\ site[p] = "range")

\* C13: wsfe_query_invoices_range looks up the numbers from..to in ascending
\* order, each once, whatever failed before; its list holds the records of
\* the lookups that succeeded, each once and in that order; the call returns
\* that list and never raises.
C13_RangeSkipsGaps ==
    \A p \in Procs :
      InRange(p) =>
        LET f  == rg[p]
            lk == LookupsOf(p, f.punto_venta)
            ok == SelectSeq(lk, LAMBDA ev : ev.r = "ok")
        IN  /\ Len(lk) = f.n - f.from_number
            /\ \A i \in 1 .. Len(lk) : lk[i].n = f.from_number + i - 1
            /\ NumbersOf(f.invoices) = [i \in 1 .. Len(ok) |-> ok[i].n]
            /\ \A i \in 1 .. Len(f.invoices) :
                  f.invoices[i].punto_venta = f.punto_venta
            /\ pc[p] \in {"rg_done", "done"} =>
                  f.n = (IF f.to_number >= f.from_number THEN f.to_number + 1
                         ELSE f.from_number)
            /\ pc[p] = "done" =>
                  (outcome[p].kind = "ret" /\ outcome[p].out = Some(f.invoices))

\* The range 1..5 with the lookups of 2 and 4 failing returned the records of
\* 1, 3 and 5.
C13_Witness ==
    \E p \in Procs :
      /\ pc[p] = "done" /\ site[p] = "range"
      /\ rg[p].from_number = 1 /\ rg[p].to_number = 5
      /\ [i \in 1 .. 5 |-> log[p][i].r = "ok"] = <<TRUE, FALSE, TRUE, FALSE, TRUE>>
      /\ outcome[p].kind = "ret"
      /\ NumbersOf(outcome[p].out[1]) = <<1, 3, 5>>

\* p has a finished get_invoices call that returned its list.
GotInvoices(p) ==
    pc[p] = "done" /\ site[p] = "invoices" /\ outcome[p].kind = "ret"

\* The list get_invoices returned to p, and whether a record is in it.
Result(p) == outcome[p].out[1]
InResult(p, rec) == \E i \in 1 .. Len(Result(p)) : Result(p)[i] = rec

\* The records get_invoices fetched for p.
Fetched(p) == {gi[p].fetched[i] : i \in 1 .. Len(gi[p].fetched)}

\* C14: a fetched record whose date parses is in the list get_invoices
\* returns exactly when date_from <= date <= date_to.
C14_DateWindow ==
    \A p \in Procs :
      GotInvoices(p) =>
        \A rec \in Fetched(p) :
          ParseFecha(rec.fecha_emision).ok =>
            (InResult(p, rec) <=>
               /\ gi[p].date_from <= ParseFecha(rec.fecha_emision).date
               /\ ParseFecha(rec.fecha_emision).date <= gi[p].date_to)

\* Records of 2026-01-10, 2026-02-15 and 2026-03-01 were fetched for the
\* window 2026-02-01 to 2026-02-28 and only the one of 2026-02-15 returned;
\* or the window was the single day 2026-02-15 and that record returned.
C14_Witness ==
    \E p \in Procs :
      /\ GotInvoices(p)
      /\ \/ /\ gi[p].date_from = Ordinal(2026, 2, 1)
            /\ gi[p].date_to = Ordinal(2026, 2, 28)
            /\ {ParseFecha(rec.fecha_emision) : rec \in Fetched(p)} =
                  {[ok |-> TRUE, date |-> Ordinal(2026, 1, 10)],
                   [ok |-> TRUE, date |-> Ordinal(2026, 2, 15)],
                   [ok |-> TRUE, date |-> Ordinal(2026, 3, 1)]}
            /\ Len(Result(p)) = 1
            /\ Result(p)[1].fecha_emision = FmtDateAfip(Some(Ymd(2026, 2, 15)))
         \/ /\ gi[p].date_from = Ordinal(2026, 2, 15)
            /\ gi[p].date_to = Ordinal(2026, 2, 15)
            /\ Len(Result(p)) = 1
            /\ Result(p)[1].fecha_emision = FmtDateAfip(Some(Ymd(2026, 2, 15)))

\* C15: every fetched record whose date does not parse is in the list
\* get_invoices returns.
C15_FailOpen ==
    \A p \in Procs :
      GotInvoices(p) =>
        \A rec \in Fetched(p) :
          ~ParseFecha(rec.fecha_emision).ok => InResult(p, rec)

\* For the window of the single day 2026-02-15 a record without date, or
\* with the date text "01/13/2026", was fetched and returned.
C15_Witness ==
    \E p \in Procs :
      /\ GotInvoices(p)
      /\ gi[p].date_from = Ordinal(2026, 2, 15)
      /\ gi[p].date_to = Ordinal(2026, 2, 15)
      /\ \E rec \in Fetched(p) :
            /\ rec.fecha_emision \in {<< >>, FmtDateAfip(Some(Ymd(2026, 13, 1)))}
            /\ InResult(p, rec)

\* C16: in the list get_invoices returns, of two neighbours whose dates parse
\* the first has the later date, or the same date and a number not smaller.
C16_SortedByDate ==
    \A p \in Procs :
      GotInvoices(p) =>
        \A i \in 1 .. (Len(Result(p)) - 1) :
          LET a == Result(p)[i]
              b == Result(p)[i + 1]
              da == ParseFecha(a.fecha_emision)
              db == ParseFecha(b.fecha_emision)
          IN  (da.ok /\ db.ok) =>
                \/ da.date > db.date
                \/ da.date = db.date /\ a.invoice_number >= b.invoice_number

\* What the claim shares with the code: the list is in descending order of
\* the key (text of the date, number).
C16_SortedByKey ==
    \A p \in Procs :
      GotInvoices(p) =>
        \A i \in 1 .. (Len(Result(p)) - 1) :
          ~KeyLess(Result(p)[i], Result(p)[i + 1])

\* The last-number queries of get_invoices in the log of p, in order.
QueriesOf(p) == SelectSeq(log[p], LAMBDA ev : ev.call = "query")

\* C18: a last-number query ends with a number >= 0 or with a fault or
\* transport error, so the number 0 is no error; get_invoices makes no lookup
\* and keeps no record for a point of sale whose last number is 0, and asks
\* for the last number of every point of sale after it.
C18_ZeroIsNoError ==
    \A p \in Procs :
      /\ \A i \in Places(p, "query") :
            /\ log[p][i].r \in {"ok", "wsfe_fault", "wsfe_transport"}
            /\ log[p][i].n >= 0
      /\ (pc[p] = "done" /\ site[p] = "getlast" /\ Places(p, "query") # {}) =>
            \A i \in Places(p, "query") :
              log[p][i].r = "ok" =>
                (outcome[p].kind = "ret" /\ outcome[p].out = Some(log[p][i].n))
      /\ site[p] = "invoices" =>
            /\ \A i \in Places(p, "query") :
                  (log[p][i].r = "ok" /\ log[p][i].n = 0) =>
                    /\ LookupsOf(p, log[p][i].pv) = << >>
                    /\ \A rec \in Fetched(p) : rec.punto_venta # log[p][i].pv
            /\ GotInvoices(p) =>
                  [i \in 1 .. Len(QueriesOf(p)) |-> QueriesOf(p)[i].pv] = gi[p].pvs

\* get_invoices for the points of sale 2 and 1: the last number of 2 was 0,
\* the invoices of 1 were fetched and one of them returned.
C18_Witness ==
    \E p \in Procs :
      /\ GotInvoices(p)
      /\ gi[p].pvs = <<2, 1>>
      /\ QueriesOf(p)[1].r = "ok" /\ QueriesOf(p)[1].n = 0
      /\ LookupsOf(p, 1) # << >>
      /\ Result(p) # << >>

\* The elements with a Msg among the given ones: the (code, message) pairs.
Pairs(items) == {items[i] : i \in {j \in 1 .. Len(items) : ~IsNone(items[j].msg)}}

\* p's issue_invoice ended with the rejection of its submission.
Rejected(p) ==
    pc[p] = "done" /\ Submitted(p) /\ Submission(p).r = "R"

\* C17: a submission answered with Resultado "R" fails, and the message of
\* the failure has a line for every Err and every Obs element with a Msg in
\* the response, with its code and its message.
C17_RejectionAggregation ==
    \A p \in Procs :
      Rejected(p) =>
        /\ outcome[p].kind = "raise" /\ outcome[p].err = "cae_rejected"
        /\ \A el \in Pairs(Submission(p).items) :
              \E i \in 1 .. Len(outcome[p].msg) :
                outcome[p].msg[i] = Line(el.tag, el.code, el.msg[1])

\* A rejection with two error pairs and one observation pair gave a message
\* with the three of them.
C17_Witness ==
    \E p \in Procs :
      /\ Rejected(p)
      /\ Cardinality({el \in Pairs(Submission(p).items) : el.tag = "Err"}) = 2
      /\ Cardinality({el \in Pairs(Submission(p).items) : el.tag = "Obs"}) = 1
      /\ Cardinality({i \in 1 .. Len(outcome[p].msg) :
                        outcome[p].msg[i].kind \in {"Err", "Obs"}}) = 3

\* The credential the facades wrote through last is usable at clock value t.
WrittenUsable(t) == ~IsNone(lastWrite) /\ Usable(lastWrite[1], t)

\* C19: while the credential an authentication wrote through is outside the
\* safety margin, a _get_token call that finds no valid credential in memory
\* (as the first call of a new instance does) makes no authentication request
\* and returns that credential.
C19_SurvivesRestart ==
    \A p \in Procs :
      /\ (pc[p] = "gt_auth" /\ site[p] = "direct") => ~WrittenUsable(now)
      /\ (/\ pc[p] = "done" /\ site[p] = "direct"
          /\ WrittenUsable(outcome[p].at)
          /\ \A i \in DOMAIN log[p] : log[p][i].call # "save") =>
            /\ outcome[p].kind = "ret"
            /\ outcome[p].val = lastWrite
            /\ \A i \in DOMAIN log[p] : log[p][i].call # "auth"

\* The first call of a new instance read the cache file, made no other call
\* and returned the credential an earlier authentication wrote through.
C19_Witness ==
    \E p \in Procs :
      /\ pc[p] = "done" /\ site[p] = "direct"
      /\ CallNames(p) = <<"load">>
      /\ ~IsNone(lastWrite)
      /\ outcome[p].kind = "ret"
      /\ outcome[p].val = lastWrite

\* p and q are both at the end of a _get_token call in which they
\* authenticated and saved.
BothAuthenticated(p, q) ==
    /\ p # q
    /\ \A r \in {p, q} :
          /\ pc[r] = "done" /\ site[r] = "direct" /\ outcome[r].kind = "ret"
          /\ AuthResult(r) = "ok"
          /\ \E i \in DOMAIN log[r] : log[r][i].call = "save"

\* C20: when the _get_token calls of two processes have both authenticated
\* and saved, the cache file holds the text of the dict written last, and
\* each process has its own dict in memory and returned it.
C20_LastWritePersists ==
    \A p \in Procs :
      \A q \in Procs :
        BothAuthenticated(p, q) =>
          /\ disk[SelfPath] = Some(JsonDumps(lastWrite[1]))
          /\ mem[p] = token_data[p]
          /\ outcome[p].val = token_data[p]

\* What holds of the two processes: each has its own dict in memory and
\* returned it.
C20_OwnCredential ==
    \A p \in Procs :
      \A q \in Procs :
        BothAuthenticated(p, q) =>
          /\ mem[p] = token_data[p]
          /\ outcome[p].val = token_data[p]

\* A tree yields both a token and a signature.
HasBoth(layer) == ~IsNone(layer.token) /\ ~IsNone(layer.sign)

\* wsaa_get_token was called with a response; its inner document, if any.
WsaaCalled == direct.fn = "wsaa_get_token" /\ direct.resp[1].kind = "response"
InnerOf(reply) ==
    IF reply.login_return = "document" THEN reply.inner ELSE NoLayer

\* C21: wsaa_get_token succeeds when the inner document or the outer tree
\* yields both a token and a signature, and fails when neither does.
C21_EitherLayer ==
    WsaaCalled =>
      LET reply == direct.resp[1]
      IN  direct.out[1].raised <=>
            ~(HasBoth(InnerOf(reply)) \/ HasBoth(reply.outer))

\* What holds: wsaa_get_token fails when neither tree yields both, and
\* succeeds when the inner document yields both, or yields no token while the
\* outer tree yields both.
C21_TokenDecides ==
    WsaaCalled =>
      LET reply == direct.resp[1]
      IN  direct.out[1].raised <=>
            ~(\/ HasBoth(InnerOf(reply))
              \/ IsNone(InnerOf(reply).token) /\ HasBoth(reply.outer))

\* C30: the dict wsaa_get_token returns has the token and the signature of
\* the inner document, or the token and the signature of the outer tree.
C30_SameLayer ==
    (WsaaCalled /\ ~direct.out[1].raised) =>
      LET reply == direct.resp[1]
          d == direct.out[1].val[1]
      IN  \/ /\ Some(d.token) = InnerOf(reply).token
             /\ Some(d.sign) = InnerOf(reply).sign
          \/ /\ Some(d.token) = reply.outer.token
             /\ Some(d.sign) = reply.outer.sign

\* The inner document had a signature and no token, the outer tree both:
\* the dict returned is the one of the outer tree.
C30_Witness ==
    /\ WsaaCalled
    /\ IsNone(InnerOf(direct.resp[1]).token)
    /\ ~IsNone(InnerOf(direct.resp[1]).sign)
    /\ ~direct.out[1].raised
    /\ direct.out[1].val[1].sign = "sigB"

\* wsfe_request_cae was called with a response.
CaeCalled == direct.fn = "wsfe_request_cae" /\ direct.resp[1].kind = "response"

\* The indices of the Obs elements with a Msg among the given ones.
ObsPlaces(items) ==
    {i \in 1 .. Len(items) : items[i].tag = "Obs" /\ ~IsNone(items[i].msg)}

\* C22: on a response that is no rejection and has a CAE, wsfe_request_cae
\* returns, and the obs of its result are the Obs elements with a Msg of the
\* response, all of them and in the order of the tree.
C22_ObservationsCarried ==
    (CaeCalled /\ direct.resp[1].resultado # "R" /\ direct.resp[1].cae) =>
      LET items == direct.resp[1].items
          out == direct.out[1]
      IN  /\ ~out.raised
          /\ Len(out.val[1].obs) = Cardinality(ObsPlaces(items))
          /\ \A i \in ObsPlaces(items) :
                out.val[1].obs[Cardinality({j \in ObsPlaces(items) : j <= i})] =
                  <<items[i].code, items[i].msg[1]>>

\* An approved response with the observations 10063 and 10217, in this
\* order, gave a result with both in this order.
C22_Witness ==
    /\ CaeCalled
    /\ direct.resp[1].resultado = "A"
    /\ ~direct.out[1].raised
    /\ direct.out[1].val[1].obs = << <<"10063", "cond">>, <<"10217", "iva">> >>

\* C29: a result wsfe_request_cae returns has a CAE and a Resultado other
\* than "R"; a response without CAE that is no rejection raises.
C29_ResultHasCae ==
    CaeCalled =>
      /\ ~direct.out[1].raised =>
            /\ direct.out[1].val[1].cae
            /\ direct.out[1].val[1].resultado # "R"
            /\ direct.resp[1].cae /\ direct.resp[1].resultado # "R"
      /\ (~direct.resp[1].cae /\ direct.resp[1].resultado # "R") =>
            (direct.out[1].raised /\ direct.out[1].err = "cae_not_returned")

\* A response with Resultado "A" and without CAE raised.
C29_Witness ==
    /\ CaeCalled
    /\ direct.resp[1].resultado = "A" /\ ~direct.resp[1].cae
    /\ direct.out[1].raised

\* C23: any two documents _build_tra built have different unique ids.
C23_UniqueIds ==
    \A i \in 1 .. Len(tras) :
      \A j \in 1 .. Len(tras) :
        i # j => tras[i].uniqueId # tras[j].uniqueId

\* What holds: the unique ids never decrease.
C23_IdsOfSeconds ==
    \A i \in 1 .. Len(tras) :
      \A j \in 1 .. Len(tras) :
        i < j => tras[i].uniqueId <= tras[j].uniqueId

\* p is in, or at the end of, a call of issue_invoice.
Issuing(p) == row[p] # NoRow

\* The places of the authentication requests in the log of p.
AuthPlaces(p) == Places(p, "auth")

\* C24: a call of issue_invoice makes at most one authentication request;
\* between its last-number query and its submission it makes no file or
\* remote call, and the submission carries the credential of the query.
C24_OneAuthentication ==
    \A p \in Procs :
      Issuing(p) =>
        /\ Cardinality(AuthPlaces(p)) <= 1
        /\ Submitted(p) =>
              \E i \in Places(p, "query") :
                /\ i = Len(log[p]) - 1
                /\ log[p][i].cred = Submission(p).cred

\* What holds: when the credential of the query is still usable at the
\* second _get_token, that one makes no call and the submission carries the
\* same credential.
C24_WhileUsable ==
    \A p \in Procs :
      (Issuing(p) /\ Submitted(p) /\ pc[p] = "done") =>
        \A i \in Places(p, "query") :
          Usable(log[p][i].cred[1], outcome[p].at) =>
            /\ i = Len(log[p]) - 1
            /\ log[p][i].cred = Submission(p).cred

\* p's log has a last-number query that succeeded.
QueryOk(p) == \E i \in Places(p, "query") : log[p][i].r = "ok"

\* The step appends a submission to the log of p.
Submits(p) ==
    /\ Len(log'[p]) = Len(log[p]) + 1
    /\ log'[p][Len(log'[p])].call = "submit"

\* C25: a submission is sent only by a call of issue_invoice whose
\* last-number query has succeeded, and the numbers the service has
\* authorized change only with such a submission; so a call whose
\* credential acquisition or last-number query fails sends none and leaves
\* them as they were.
C25_SubmitAfterQuery ==
    [][/\ \A p \in Procs : Submits(p) => (Issuing(p) /\ QueryOk(p))
       /\ (remoteLast' # remoteLast \/ approved' # approved) =>
            \E p \in Procs : Submits(p) /\ QueryOk(p)]_vars

\* A call of issue_invoice ended with the error of its last-number query, or
\* of its authentication, and sent no submission.
C25_Witness ==
    \E p \in Procs :
      /\ Issuing(p) /\ pc[p] = "done" /\ outcome[p].kind = "raise"
      /\ Places(p, "submit") = {}
      /\ \/ \E i \in Places(p, "query") : log[p][i].r # "ok"
         \/ \E i \in Places(p, "auth") : log[p][i].r # "ok"

\* The step appends to the log of p an authentication that failed for
\* another reason than an active ticket.
AuthFails(p) ==
    /\ Len(log'[p]) = Len(log[p]) + 1
    /\ log'[p][Len(log'[p])].call = "auth"
    /\ log'[p][Len(log'[p])].r \notin {"ok", "ta_valido"}

\* C26: an authentication that fails for another reason than an active
\* ticket ends _get_token with that error, and leaves the memory slot and the
\* cache file as they were before the request; nothing is saved.
C26_FailedAuthFrame ==
    [][\A p \in Procs :
         AuthFails(p) =>
           /\ mem' = mem
           /\ disk' = disk
           /\ pc'[p] = "done"
           /\ outcome'[p].kind = "raise"
           /\ outcome'[p].err = log'[p][Len(log'[p])].r]_vars

\* _get_token ended with the error of the authentication, a stale credential
\* still in memory and a file still on disk.
C26_Witness ==
    \E p \in Procs :
      /\ pc[p] = "done" /\ outcome[p].kind = "raise"
      /\ AuthResult(p) \in {"wsaa_fault", "transport"}
      /\ outcome[p].err = AuthResult(p)
      /\ ~IsNone(mem[p])

\* A last-number query of p's get_invoices failed.
QueryFailed(p) ==
    site[p] = "invoices" /\ \E i \in Places(p, "query") : log[p][i].r # "ok"

\* C27: a get_invoices call in which a last-number query failed still
\* returns; it asked for the last number of every requested point of sale;
\* the failing point of sale got no lookup and has no record in the list;
\* every other one with invoices had the numbers 1..last looked up, and its
\* fetched records are in the list when the filter keeps them.
C27_OtherPointsOfSale ==
    \A p \in Procs :
      (QueryFailed(p) /\ pc[p] = "done") =>
        /\ outcome[p].kind = "ret"
        /\ [i \in 1 .. Len(QueriesOf(p)) |-> QueriesOf(p)[i].pv] = gi[p].pvs
        /\ \A i \in Places(p, "query") :
              LET ev == log[p][i]
              IN  IF ev.r # "ok"
                  THEN /\ LookupsOf(p, ev.pv) = << >>
                       /\ \A j \in 1 .. Len(Result(p)) :
                             Result(p)[j].punto_venta # ev.pv
                  ELSE /\ [k \in 1 .. Len(LookupsOf(p, ev.pv)) |->
                              LookupsOf(p, ev.pv)[k].n] = [k \in 1 .. ev.n |-> k]
                       /\ \A k \in 1 .. ev.n :
                             LookupsOf(p, ev.pv)[k].r = "ok" =>
                               \E rec \in Fetched(p) :
                                 /\ rec.punto_venta = ev.pv
                                 /\ rec.invoice_number = k
                                 /\ InResult(p, rec) <=>
                                       KeepInvoice(rec, gi[p].date_from,
                                                   gi[p].date_to)

\* The query of the first point of sale failed and a record of the second
\* is in the list returned.
C27_Witness ==
    \E p \in Procs :
      /\ GotInvoices(p)
      /\ Len(gi[p].pvs) = 2
      /\ QueriesOf(p)[1].r # "ok"
      /\ \E j \in 1 .. Len(Result(p)) : Result(p)[j].punto_venta = gi[p].pvs[2]

\* The keys of the cache: a taxpayer id and an environment.
Keys == Cuits \X BOOLEAN

\* C28: different keys have different files; a load returns only the dict in
\* the file of its own key; and a step changes no file but the one of the key
\* of the save, load or delete it made.
C28_KeyIsolation ==
    /\ [](/\ \A k1 \in Keys :
              \A k2 \in Keys :
                PathName(k1[1], k1[2]) = PathName(k2[1], k2[2]) => k1 = k2
          /\ (res.op = "load" /\ ~IsNone(res.out)) =>
                res.pre = Some(JsonDumps(res.out[1])))
    /\ [][\A f \in DOMAIN disk :
            disk'[f] # disk[f] =>
              /\ res'.op \in {"save", "load", "delete"}
              /\ f = PathName(res'.cuit, res'.homo)]_vars

\* A load removed the stale or corrupt file of its key, or a delete the file
\* of its key, while the file of another key holds a credential.
C28_Witness ==
    /\ res.op \in {"load", "delete"}
    /\ ~IsNone(res.pre)
    /\ IsNone(disk[ResPath])
    /\ \E f \in DOMAIN disk :
          /\ f # ResPath
          /\ ~IsNone(disk[f])
          /\ disk[f][1].json

=============================================================================
